---------------------------- MODULE Spec2Model ----------------------------
(***************************************************************************)
(* Beevo: real-time voice session orchestration.                           *)
(*                                                                         *)
(* The programs of the repository that are modelled:                      *)
(*   - The server: SessionManager + BrandStateManager + ToolHandler +      *)
(*     GeminiLiveConnection (src/server/src/...), one client session with  *)
(*     the connection objects it creates over time.                        *)
(*   - The in-browser Architect component (src/unnamed/part_004), which    *)
(*     talks to the upstream model directly and owns the mic-lock and      *)
(*     warmup flags.                                                       *)
(*   - The history of one ToolDecisionAgent, the playback timeline of the  *)
(*     useAudioStream hook, and the SessionManager with several sessions,  *)
(*     each under a specification of its own.                              *)
(*                                                                         *)
(* JavaScript values: an object is a function whose DOMAIN is the set of   *)
(* keys that are present; a missing key is `undefined`.  A string field    *)
(* that was assigned `undefined` holds the string Undefined.               *)
(***************************************************************************)
EXTENDS Integers, Sequences, FiniteSets, TLC

VARIABLES
    \* ---- server: SessionManager / Session ----
    apiKeySet,        \* process.env.GEMINI_API_KEY is set
    sessState,        \* "none" | "registered" | "destroyed" (entry of sessions map)
    wsOpen,           \* session.ws.readyState === OPEN
    geminiConnection, \* session.geminiConnection: 0 (null) or a connection id
    isActive,         \* session.isActive
    dna,              \* BrandStateManager.dna
    progress,         \* BrandStateManager.progress
    currentPalettes,  \* session.currentPalettes
    currentFonts,     \* session.currentFonts
    canvasMode,       \* session.canvasMode
    \* ---- server: GeminiLiveConnection objects ----
    connPromise,      \* connect() of connection c: "unused"|"pending"|"resolved"|"rejected"
    liveSession,      \* this.liveSession !== null
    isConnected,      \* this.isConnected
    upstream,         \* the upstream socket: "none"|"opening"|"open"|"closed"
    greetTimer,       \* the 1000 ms setTimeout of onopen is pending
    accumulatedUserInput, \* this.accumulatedUserInput, as the sequence of fragments
    passes,           \* outstanding processUserInputForTools calls (awaiting the agent)
    \* ---- observation of the last handler run ----
    out,              \* messages written to the client transport by the last handler
    upOut,            \* sends made to upstream sockets by the last handler
    ev,               \* the event the last handler handled
    awaitingContent,  \* history: a tool call arrived on c and no model content since
    handled,          \* history: store-touching messages handled (SpecTools' budget)
    repeated,         \* history: the last event repeated the one before it (SpecTools)
    \* ---- the Architect component (src/unnamed/part_004) ----
    isLive,           \* React state isLive
    isConnecting,     \* React state isConnecting
    isToolProcessing, \* isToolProcessing.current: the mic lock
    isAudioWarmup,    \* isAudioWarmup.current
    activeSessionRef, \* activeSessionRef.current: 0 (null) or the attempt whose session it is
    mediaRef,         \* streamRef / audioContextRef / processorRef: 0 or the attempt that set them
    attempt,          \* connectLive call a: "unused"|"gum"|"connecting"|"open"|"closed"|"failed"
    capture,          \* the processor of attempt a: "none"|"running"|"stopped"
    onaudioprocess,   \* processor.onaudioprocess of attempt a is set
    warmupTimers,     \* pending 500 ms timeouts, in the order they were set
    sent,             \* sends made to live sessions by the last handler
    aev,              \* the event the last Architect handler handled
    \* ---- one ToolDecisionAgent (src/server/src/gemini/ToolDecisionAgent.ts) ----
    conversationHistory, \* this.conversationHistory: entries [role, n], n the push that made it
    analyzing,        \* analyzeAndDecideTools calls awaiting generateContent
    pushed,           \* history: entries pushed so far
    responses,        \* history: addModelResponse calls so far
    quiet,            \* history: requests that ended without a tool call
    gev,              \* the last step of the agent
    \* ---- the useAudioStream hook (src/client/src/hooks/useAudioStream.ts) ----
    now,              \* the wall clock, in ticks
    contexts,         \* output AudioContexts created so far: [born, closed]
    outputContext,    \* outputContextRef.current: 0 (null) or an index of contexts
    nextPlayTime,     \* nextPlayTimeRef.current, in the time of the current context
    units,            \* buffer sources started so far: [ctx, start, end, stopped]
    activeSources,    \* activeSourcesRef.current: indices of units
    pev,              \* the last step of the hook
    \* ---- SessionManager with several sessions (SessionManager.ts) ----
    sessions,         \* this.sessions: the ids that have an entry in the map
    sess,             \* the Session objects by id (an object outlives its entry)
    inbox,            \* per client socket: messages written by the last handler
    rev,              \* the last event handled and the session it was for
    regHandled,       \* history: store-touching events handled for any session
    \* ---- the client's ArchitectMain component (ArchitectMain.tsx) ----
    suggestionMode,   \* React state suggestionMode: "none" | "fonts" | "colors"
    toClient          \* server messages written to the socket, not yet handled

srvVars == <<apiKeySet, sessState, wsOpen, geminiConnection, isActive, dna, progress,
             currentPalettes, currentFonts, canvasMode, connPromise, liveSession,
             isConnected, upstream, greetTimer, accumulatedUserInput, passes,
             out, upOut, ev, awaitingContent, handled, repeated>>

archVars == <<isLive, isConnecting, isToolProcessing, isAudioWarmup, activeSessionRef,
              mediaRef, attempt, capture, onaudioprocess, warmupTimers, sent, aev>>

agentVars == <<conversationHistory, analyzing, pushed, responses, quiet, gev>>

playVars == <<now, contexts, outputContext, nextPlayTime, units, activeSources, pev>>

regVars == <<sessions, sess, inbox, rev, regHandled>>

clientVars == <<suggestionMode, toClient>>

\* the other programs, as seen from the server and from the Architect
besideSession == <<archVars, agentVars, playVars, regVars>>
besideServer == <<besideSession, clientVars>>
besideArchitect == <<srvVars, agentVars, playVars, regVars, clientVars>>

vars == <<srvVars, archVars, agentVars, playVars, regVars, clientVars>>

-----------------------------------------------------------------------------
(* Bounds of the model *)

\* connection objects one session may create (START_SESSION count)
MaxConns == 2
\* function calls carried by one tool-call message or one decision
MaxCalls == 2
\* decision passes outstanding at once
MaxPasses == 1
\* input-transcription fragments accumulated before a turn completes
MaxAcc == 1
\* tool messages, clicks and edits handled in a run of SpecTools
MaxEvents == 2
\* connectLive calls of the Architect component
MaxAttempts == 2

ConnIds == 1..MaxConns
AttemptIds == 1..MaxAttempts

\* method calls on one BrandStateManager
MaxUpdates == 4
\* decision passes pending at once in the overlapping-turns specification
MaxOverlap == 2

\* sessions (client sockets) of the several-session specification
MaxSessions == 2
SessionIds == 1..MaxSessions

-----------------------------------------------------------------------------
(* JavaScript helpers *)

Undefined == "<undefined>"

Has(o, k) == k \in DOMAIN o

\* o[k], or `undefined` for a missing key (string-valued keys)
Get(o, k) == IF Has(o, k) THEN o[k] ELSE Undefined

\* truthiness of a string-or-undefined value
TruthyStr(s) == s # Undefined /\ s # ""

\* truthiness of o[k] where o[k], when present, is a string
TruthyKey(o, k) == Has(o, k) /\ TruthyStr(o[k])

\* a || b on strings
OrStr(a, b) == IF TruthyStr(a) THEN a ELSE b

\* the empty object {}
EmptyObj == [k \in {} |-> Undefined]

\* tagged values of a JSON payload: a string, an array of strings, or undefined
Str(s) == [t |-> "s", s |-> s]
Arr(a) == [t |-> "a", a |-> a]
Undef == [t |-> "u"]

\* the value as stored in a string field
AsStr(v) == IF v.t = "s" THEN v.s ELSE Undefined

\* Array.isArray(value) ? value : [value]
AsArr(v) == IF v.t = "a" THEN v.a ELSE <<AsStr(v)>>

-----------------------------------------------------------------------------
(* BrandStateManager (src/server/src/sessions/SessionManager.ts, 286-398) *)

\* the record built by the constructor
InitialDNA ==
    [name |-> "", mission |-> "", colors |-> <<>>, typography |-> <<>>,
     voice |-> "Professional"]

\* getDNA(): { ...this.dna }, a copy with the keys the record has
getDNA(st) == [k \in DOMAIN st.dna |-> st.dna[k]]

\* a faulty lookup: the item of the field is never found
findIndexMissing(prog, field) == 0

\* findIndex(p => p.field === field): 0 when there is none
findIndex(prog, field) ==
    IF \E i \in 1..Len(prog) : prog[i].field = field
    THEN CHOOSE i \in 1..Len(prog) :
             /\ prog[i].field = field
             /\ \A j \in 1..(i - 1) : prog[j].field # field
    ELSE 0

\* a faulty updateProgress: the new item counts as finalized
updateProgressFinalizing(prog, field, value) ==
    LET item == [field |-> field, value |-> value, finalized |-> TRUE]
        i == findIndex(prog, field)
    IN  IF i > 0 THEN [prog EXCEPT ![i] = item] ELSE Append(prog, item)

\* a faulty updateProgress: the new item keeps the flag of the item it replaces
updateProgressKeeping(prog, field, value) ==
    LET i == findIndex(prog, field)
        item == [field |-> field, value |-> value,
                 finalized |-> (i > 0 /\ prog[i].finalized)]
    IN  IF i > 0 THEN [prog EXCEPT ![i] = item] ELSE Append(prog, item)

\* updateProgress(field, value): replace the field's item in place, or append
updateProgress(prog, field, value) ==
    LET item == [field |-> field, value |-> value, finalized |-> FALSE]
        i == findIndex(prog, field)
    IN  IF i > 0 THEN [prog EXCEPT ![i] = item] ELSE Append(prog, item)

\* a faulty update: a colour value is added to the colours already stored
updateAccumulating(st, field, v) ==
    CASE field = "name" ->
           [st EXCEPT !.dna.name = AsStr(v),
                      !.progress = updateProgress(@, "name", v)]
      [] field = "mission" ->
           [st EXCEPT !.dna.mission = AsStr(v),
                      !.progress = updateProgress(@, "mission", v)]
      [] field = "colors" ->
           [st EXCEPT !.dna.colors = @ \o AsArr(v),
                      !.progress = updateProgress(@, "colors", Arr(AsArr(v)))]
      [] field = "typography" ->
           [st EXCEPT !.dna.typography = AsArr(v),
                      !.progress = updateProgress(@, "font",
                                       IF Len(AsArr(v)) > 0 THEN Str(AsArr(v)[1])
                                       ELSE Undef)]
      [] field = "voice" ->
           [st EXCEPT !.dna.voice = AsStr(v),
                      !.progress = updateProgress(@, "voice", v)]
      [] OTHER -> st

\* update(field, value) on the store st; v is a tagged JSON value
update(st, field, v) ==
    CASE field = "name" ->
           [st EXCEPT !.dna.name = AsStr(v),
                      !.progress = updateProgress(@, "name", v)]
      [] field = "mission" ->
           [st EXCEPT !.dna.mission = AsStr(v),
                      !.progress = updateProgress(@, "mission", v)]
      [] field = "colors" ->
           [st EXCEPT !.dna.colors = AsArr(v),
                      !.progress = updateProgress(@, "colors", Arr(AsArr(v)))]
      [] field = "typography" ->
           [st EXCEPT !.dna.typography = AsArr(v),
                      !.progress = updateProgress(@, "font",
                                       IF Len(AsArr(v)) > 0 THEN Str(AsArr(v)[1])
                                       ELSE Undef)]
      [] field = "voice" ->
           [st EXCEPT !.dna.voice = AsStr(v),
                      !.progress = updateProgress(@, "voice", v)]
      [] field = "logoUrl" ->
           [st EXCEPT !.dna = [logoUrl |-> AsStr(v)] @@ @]
      [] OTHER -> st

-----------------------------------------------------------------------------
(* ToolHandler (src/server/src/gemini/ToolHandler.ts) *)

\* a faulty sendToClient: the message is written to the socket the closure
\* holds, whether or not the session is still in the map
sendToClientUnchecked(st, msg) == [st EXCEPT !.out = Append(@, msg)]

\* SessionManager.sendToClient as seen through the per-session closure: the
\* message is written only if the session is still in the map and its socket
\* open (st.open; no handler changes either between two of its sends)
sendToClient(st, msg) ==
    IF st.open
    THEN [st EXCEPT !.out = Append(@, msg)]
    ELSE st

FallbackColors == <<"#3B82F6", "#10B981", "#8B5CF6", "#F59E0B">>

normFont(f) ==
    [name |-> Get(f, "name"),
     category |-> OrStr(Get(f, "category"), "sans-serif"),
     reasoning |-> OrStr(Get(f, "reasoning"), "")]

normPalette(p) ==
    [name |-> OrStr(Get(p, "name"), "Unnamed Palette"),
     colors |-> IF Has(p, "colors") THEN p.colors ELSE FallbackColors,
     vibe |-> OrStr(Get(p, "vibe"), "modern")]

\* (args.fonts || []).map(...)
handleFontSuggestions(st, args) ==
    LET raw == IF Has(args, "fonts") THEN args.fonts ELSE <<>>
        fonts == [i \in 1..Len(raw) |-> normFont(raw[i])]
        previewText == OrStr(Get(args, "context_text"), "Brand Name")
        s1 == [st EXCEPT !.currentFonts = fonts, !.canvasMode = "fonts"]
        s2 == sendToClient(s1, [type |-> "FONT_SUGGESTIONS", fonts |-> fonts,
                                previewText |-> previewText])
    IN  sendToClient(s2, [type |-> "THOUGHT", logic |-> "Typography thread",
                          count |-> Len(fonts), confidence |-> "0.9"])

handleColorSuggestions(st, args) ==
    LET raw == IF Has(args, "palettes") THEN args.palettes ELSE <<>>
        palettes == [i \in 1..Len(raw) |-> normPalette(raw[i])]
        s1 == [st EXCEPT !.currentPalettes = palettes, !.canvasMode = "colors"]
        s2 == sendToClient(s1, [type |-> "COLOR_SUGGESTIONS", palettes |-> palettes])
    IN  sendToClient(s2, [type |-> "THOUGHT", logic |-> "Color thread",
                          count |-> Len(palettes), confidence |-> "0.9"])

getUpdatedField(args) ==
    IF TruthyKey(args, "brandName") THEN "name"
    ELSE IF TruthyKey(args, "mission") THEN "mission"
    ELSE IF Has(args, "selectedColors") THEN "colors"
    ELSE IF TruthyKey(args, "selectedFont") THEN "typography"
    ELSE IF TruthyKey(args, "voice") THEN "voice"
    ELSE "name"

\* the keys of args whose value is truthy (an array is always truthy)
truthyKeys(args) ==
    {k \in DOMAIN args : IF k = "selectedColors" THEN TRUE ELSE TruthyStr(args[k])}

\* a faulty handleDNAUpdate: every field is written, present in args or not
handleDNAUpdateOverwriting(st, args) ==
    LET s1 == update(st, "name", Str(Get(args, "brandName")))
        s2 == update(s1, "mission", Str(Get(args, "mission")))
        s3 == update(s2, "colors",
                     Arr(IF Has(args, "selectedColors") THEN args.selectedColors
                         ELSE <<>>))
        s4 == update(s3, "typography",
                     Arr(IF Has(args, "selectedFont") THEN <<args.selectedFont>>
                         ELSE <<>>))
        s5 == update(s4, "voice", Str(Get(args, "voice")))
        s6 == sendToClient(s5, [type |-> "DNA_UPDATE", dna |-> getDNA(s5),
                                updatedField |-> getUpdatedField(args)])
    IN  sendToClient(s6, [type |-> "THOUGHT", logic |-> "Brand DNA updated",
                          fields |-> truthyKeys(args), confidence |-> "0.95"])

handleDNAUpdate(st, args) ==
    LET s1 == IF TruthyKey(args, "brandName")
              THEN update(st, "name", Str(args.brandName)) ELSE st
        s2 == IF TruthyKey(args, "mission")
              THEN update(s1, "mission", Str(args.mission)) ELSE s1
        s3 == IF Has(args, "selectedColors") /\ Len(args.selectedColors) > 0
              THEN update(s2, "colors", Arr(args.selectedColors)) ELSE s2
        s4 == IF TruthyKey(args, "selectedFont")
              THEN update(s3, "typography", Arr(<<args.selectedFont>>)) ELSE s3
        s5 == IF TruthyKey(args, "voice")
              THEN update(s4, "voice", Str(args.voice)) ELSE s4
        s6 == sendToClient(s5, [type |-> "DNA_UPDATE", dna |-> getDNA(s5),
                                updatedField |-> getUpdatedField(args)])
    IN  sendToClient(s6, [type |-> "THOUGHT", logic |-> "Brand DNA updated",
                          fields |-> truthyKeys(args), confidence |-> "0.95"])

KnownTools == {"display_font_suggestions", "display_color_suggestions",
               "update_live_brand_dna"}

\* the handlers dereference args at once: a call without args throws a TypeError
throws(fc) == fc.name \in KnownTools /\ ~Has(fc, "args")

\* the switch of handleToolCalls for one call that does not throw
applyCall(st, fc) ==
    CASE fc.name = "display_font_suggestions" -> handleFontSuggestions(st, fc.args)
      [] fc.name = "display_color_suggestions" -> handleColorSuggestions(st, fc.args)
      [] fc.name = "update_live_brand_dna" -> handleDNAUpdate(st, fc.args)
      [] OTHER -> st

\* { result: 'success', ...fc.args }: a key of args named result wins
successBody(fc) ==
    IF Has(fc, "args") THEN fc.args @@ [result |-> "success"]
    ELSE [result |-> "success"]

\* the response pushed for one call
responseOf(fc) ==
    IF throws(fc)
    THEN IF Has(fc, "id")
         THEN [id |-> fc.id, name |-> fc.name,
               response |-> [result |-> "error: TypeError"]]
         ELSE [name |-> fc.name, response |-> [result |-> "error: TypeError"]]
    ELSE IF Has(fc, "id") /\ TruthyStr(fc.id)
         THEN [id |-> fc.id, name |-> fc.name, response |-> successBody(fc)]
         ELSE [name |-> fc.name, response |-> successBody(fc)]

\* the store after the for-loop over functionCalls
RECURSIVE applyCalls(_, _)
applyCalls(st, calls) ==
    IF calls = <<>> THEN st
    ELSE applyCalls(IF throws(Head(calls)) THEN st ELSE applyCall(st, Head(calls)),
                    Tail(calls))

\* a faulty handler: the catch pushes no response for a call that threw
handleToolCallsSkipping(st, calls) ==
    [st |-> applyCalls(st, calls),
     responses |-> LET ok == SelectSeq(calls, LAMBDA fc : ~throws(fc))
                   IN  [i \in 1..Len(ok) |-> responseOf(ok[i])]]

\* handleToolCalls(functionCalls): the store afterwards and the responses
handleToolCalls(st, calls) ==
    [st |-> applyCalls(st, calls),
     responses |-> [i \in 1..Len(calls) |-> responseOf(calls[i])]]

-----------------------------------------------------------------------------
(* Inputs *)

FontArgs ==
    {EmptyObj,
     [fonts |-> <<[name |-> "Inter", category |-> "serif", reasoning |-> "clean"]>>],
     [fonts |-> <<[name |-> "Inter"], [name |-> "Lora", category |-> "serif"]>>,
      context_text |-> "Acme"]}

PaletteArgs ==
    {EmptyObj,
     [palettes |-> <<[name |-> "Sunrise", colors |-> <<"#FF0000", "#FFA500">>,
                      vibe |-> "warm"],
                     [name |-> "Sunrise", colors |-> <<"#000000">>]>>],
     [palettes |-> <<[colors |-> <<"#00FF00">>], [vibe |-> "cool"]>>]}

\* objects over the five optional keys of update_live_brand_dna
DnaArgs ==
    {EmptyObj,
     [brandName |-> "Acme"],
     [brandName |-> "Bolt", mission |-> "Ship"],
     [brandName |-> ""],
     [mission |-> "Sell"],
     [selectedColors |-> <<"#111111", "#222222">>],
     [selectedColors |-> <<>>],
     [selectedColors |-> <<>>, voice |-> "Bold"],
     [selectedFont |-> "Inter", voice |-> ""],
     [voice |-> "Bold"],
     [brandName |-> "Acme", mission |-> "Ship", selectedColors |-> <<"#333333">>,
      selectedFont |-> "Lora", voice |-> "Calm"]}

OtherArgs == {[result |-> "failed"]}

\* name and args of a call; args may be missing altogether
CallBodies ==
    {[name |-> "display_font_suggestions", args |-> a] : a \in FontArgs}
    \cup {[name |-> "display_color_suggestions", args |-> a] : a \in PaletteArgs}
    \cup {[name |-> "update_live_brand_dna", args |-> a] : a \in DnaArgs}
    \cup {[name |-> "end_session", args |-> a] : a \in OtherArgs}
    \cup {[name |-> n] : n \in {"update_live_brand_dna", "end_session"}}

\* the calls with the id the live model gives them
withId(calls) == [i \in DOMAIN calls |-> calls[i] @@ [id |-> "fc"]]

\* the calls that longer lists are built from
PairBodies ==
    {[name |-> "update_live_brand_dna"],
     [name |-> "update_live_brand_dna", args |-> [brandName |-> "Bolt"]],
     [name |-> "display_font_suggestions", args |-> EmptyObj],
     [name |-> "end_session", args |-> [result |-> "failed"]]}

CallLists ==
    {<<b>> : b \in CallBodies} \cup UNION {[1..n -> PairBodies] : n \in 2..MaxCalls}

-----------------------------------------------------------------------------
(* The session's store, and the frame of a handler *)

\* the mutable state the ToolHandler callbacks reach, with an empty outbox
Store ==
    [dna |-> dna, progress |-> progress, currentPalettes |-> currentPalettes,
     currentFonts |-> currentFonts, canvasMode |-> canvasMode,
     open |-> (sessState = "registered" /\ wsOpen), out |-> <<>>]

Commit(st) ==
    /\ dna' = st.dna
    /\ progress' = st.progress
    /\ currentPalettes' = st.currentPalettes
    /\ currentFonts' = st.currentFonts
    /\ canvasMode' = st.canvasMode
    /\ out' = st.out

storeVars == <<dna, progress, currentPalettes, currentFonts, canvasMode>>
connVars == <<connPromise, liveSession, isConnected, upstream, greetTimer,
              accumulatedUserInput>>

-----------------------------------------------------------------------------
(* GeminiLiveConnection (src/server/src/gemini/LiveConnection.ts, 82-424) *)

\* whether sendAudio / sendText / sendInitialGreeting pass their guard
canSend(c) == liveSession[c] /\ isConnected[c]

\* sendText(text): one client-content turn, or nothing
sendText(c, kind) ==
    IF c # 0 /\ canSend(c) THEN <<[conn |-> c, kind |-> kind]>> ELSE <<>>

\* disconnect(): close the live session when there is one, drop the reference
disconnect(c) ==
    /\ upstream' = [upstream EXCEPT ![c] = IF liveSession[c] THEN "closed" ELSE @]
    /\ liveSession' = [liveSession EXCEPT ![c] = FALSE]
    /\ isConnected' = [isConnected EXCEPT ![c] = FALSE]

closeSent(c) == IF liveSession[c] THEN <<[conn |-> c, kind |-> "close"]>> ELSE <<>>

-----------------------------------------------------------------------------
(* SessionManager (src/server/src/sessions/SessionManager.ts, 24-281) *)

ConnectionStatus(g) ==
    [type |-> "CONNECTION_STATUS", status |-> "connected", geminiConnected |-> g]

ErrorMsg(code) == [type |-> "ERROR", code |-> code]

\* wss.on('connection'): createSession(ws)
createSession ==
    /\ sessState = "none"
    /\ sessState' = "registered"
    /\ wsOpen' = TRUE
    /\ out' = <<ConnectionStatus(FALSE)>>
    /\ upOut' = <<>>
    /\ ev' = [op |-> "createSession"]
    /\ UNCHANGED <<apiKeySet, geminiConnection, isActive, storeVars, connVars,
                   passes, awaitingContent>>

\* destroySession(sessionId)
destroySession(why) ==
    /\ sessState = "registered"
    /\ IF geminiConnection # 0
       THEN disconnect(geminiConnection) /\ upOut' = closeSent(geminiConnection)
       ELSE UNCHANGED <<upstream, liveSession, isConnected>> /\ upOut' = <<>>
    /\ sessState' = "destroyed"
    /\ wsOpen' = FALSE
    /\ out' = <<>>
    /\ ev' = [op |-> why]
    /\ UNCHANGED <<apiKeySet, geminiConnection, isActive, storeVars, connPromise,
                   greetTimer, accumulatedUserInput, passes, awaitingContent>>

\* ws.on('close')
WsClose == destroySession("wsClose")

\* ws.on('error')
WsError == destroySession("wsError")

\* handleStartSession up to `await connect()`.  Without an API key the
\* constructor of the connection's ToolDecisionAgent throws and the catch runs.
handleStartSession ==
    /\ sessState = "registered"
    /\ IF ~apiKeySet
       THEN /\ out' = sendToClient(Store, ErrorMsg("GEMINI_CONNECTION_FAILED")).out
            /\ UNCHANGED <<geminiConnection, connPromise, upstream>>
       ELSE \E c \in ConnIds :
              /\ connPromise[c] = "unused"
              /\ \A d \in ConnIds : d < c => connPromise[d] # "unused"
              /\ geminiConnection' = c
              /\ connPromise' = [connPromise EXCEPT ![c] = "pending"]
              /\ upstream' = [upstream EXCEPT ![c] = "opening"]
              /\ out' = <<>>
    /\ upOut' = <<>>
    /\ ev' = [op |-> "START_SESSION"]
    /\ UNCHANGED <<apiKeySet, sessState, wsOpen, isActive, storeVars, liveSession,
                   isConnected, greetTimer, accumulatedUserInput, passes,
                   awaitingContent>>

\* a faulty order: the connection status goes out before SESSION_STARTED
startedMessagesReversed ==
    LET s1 == sendToClient(Store, ConnectionStatus(TRUE))
    IN  sendToClient(s1, [type |-> "SESSION_STARTED", sessionId |-> "s"]).out

\* the messages handleStartSession sends after connect() resolved
startedMessages ==
    LET s1 == sendToClient(Store, [type |-> "SESSION_STARTED", sessionId |-> "s"])
    IN  sendToClient(s1, ConnectionStatus(TRUE)).out

\* connect() of c resolves: onopen ran (isConnected, greeting timer), liveSession
\* is assigned, and handleStartSession continues after its await
connectResolved(c) ==
    /\ connPromise[c] = "pending"
    /\ connPromise' = [connPromise EXCEPT ![c] = "resolved"]
    /\ upstream' = [upstream EXCEPT ![c] = "open"]
    /\ isConnected' = [isConnected EXCEPT ![c] = TRUE]
    /\ greetTimer' = [greetTimer EXCEPT ![c] = TRUE]
    /\ liveSession' = [liveSession EXCEPT ![c] = TRUE]
    /\ isActive' = TRUE
    /\ out' = startedMessages
    /\ upOut' = <<>>
    /\ ev' = [op |-> "connectResolved", conn |-> c]
    /\ UNCHANGED <<apiKeySet, sessState, wsOpen, geminiConnection, storeVars,
                   accumulatedUserInput, passes, awaitingContent>>

\* a faulty catch: the session is marked active although connect() rejected
connectRejectedActivating(c) ==
    /\ connPromise[c] = "pending"
    /\ connPromise' = [connPromise EXCEPT ![c] = "rejected"]
    /\ upstream' = [upstream EXCEPT ![c] = "closed"]
    /\ isActive' = TRUE
    /\ out' = sendToClient(Store, ErrorMsg("GEMINI_CONNECTION_FAILED")).out
    /\ upOut' = <<>>
    /\ ev' = [op |-> "connectRejected", conn |-> c]
    /\ UNCHANGED <<apiKeySet, sessState, wsOpen, geminiConnection,
                   storeVars, liveSession, isConnected, greetTimer,
                   accumulatedUserInput, passes, awaitingContent>>

\* connect() of c rejects: the catch of handleStartSession runs
connectRejected(c) ==
    /\ connPromise[c] = "pending"
    /\ connPromise' = [connPromise EXCEPT ![c] = "rejected"]
    /\ upstream' = [upstream EXCEPT ![c] = "closed"]
    /\ out' = sendToClient(Store, ErrorMsg("GEMINI_CONNECTION_FAILED")).out
    /\ upOut' = <<>>
    /\ ev' = [op |-> "connectRejected", conn |-> c]
    /\ UNCHANGED <<apiKeySet, sessState, wsOpen, geminiConnection, isActive,
                   storeVars, liveSession, isConnected, greetTimer,
                   accumulatedUserInput, passes, awaitingContent>>

\* handleEndSession
handleEndSession ==
    /\ sessState = "registered"
    /\ IF geminiConnection # 0
       THEN disconnect(geminiConnection) /\ upOut' = closeSent(geminiConnection)
       ELSE UNCHANGED <<upstream, liveSession, isConnected>> /\ upOut' = <<>>
    /\ geminiConnection' = 0
    /\ isActive' = FALSE
    /\ out' = sendToClient(sendToClient(Store, [type |-> "SESSION_ENDED"]),
                           ConnectionStatus(FALSE)).out
    /\ ev' = [op |-> "END_SESSION"]
    /\ UNCHANGED <<apiKeySet, sessState, wsOpen, storeVars, connPromise, greetTimer,
                   accumulatedUserInput, passes, awaitingContent>>

\* a faulty sendAudio: the catch logs and leaves isConnected as it is
handleAudioChunkStayingConnected(sendThrows) ==
    /\ sessState = "registered"
    /\ IF geminiConnection # 0 /\ isActive /\ canSend(geminiConnection)
       THEN upOut' = IF sendThrows THEN <<>>
                     ELSE <<[conn |-> geminiConnection, kind |-> "audio"]>>
       ELSE sendThrows = FALSE /\ upOut' = <<>>
    /\ out' = <<>>
    /\ ev' = [op |-> "AUDIO_CHUNK", sendThrows |-> sendThrows]
    /\ UNCHANGED <<apiKeySet, sessState, wsOpen, geminiConnection, isActive,
                   storeVars, connPromise, liveSession, isConnected, upstream,
                   greetTimer, accumulatedUserInput, passes, awaitingContent>>

\* handleAudioChunk, with sendAudio; sendRealtimeInput may throw
handleAudioChunk(sendThrows) ==
    /\ sessState = "registered"
    /\ IF geminiConnection # 0 /\ isActive /\ canSend(geminiConnection)
       THEN IF sendThrows
            THEN /\ isConnected' = [isConnected EXCEPT ![geminiConnection] = FALSE]
                 /\ upOut' = <<>>
            ELSE /\ upOut' = <<[conn |-> geminiConnection, kind |-> "audio"]>>
                 /\ UNCHANGED isConnected
       ELSE /\ sendThrows = FALSE
            /\ upOut' = <<>>
            /\ UNCHANGED isConnected
    /\ out' = <<>>
    /\ ev' = [op |-> "AUDIO_CHUNK", sendThrows |-> sendThrows]
    /\ UNCHANGED <<apiKeySet, sessState, wsOpen, geminiConnection, isActive,
                   storeVars, connPromise, liveSession, upstream, greetTimer,
                   accumulatedUserInput, passes, awaitingContent>>

\* handleTextInput
handleTextInput ==
    /\ sessState = "registered"
    /\ upOut' = IF geminiConnection # 0 /\ isActive
                THEN sendText(geminiConnection, "userText") ELSE <<>>
    /\ out' = <<>>
    /\ ev' = [op |-> "TEXT_INPUT"]
    /\ UNCHANGED <<apiKeySet, sessState, wsOpen, geminiConnection, isActive,
                   storeVars, connVars, passes, awaitingContent>>

\* a faulty find: the last palette of that name, not the first
findLastPalette(palettes, value) ==
    IF \E i \in 1..Len(palettes) : palettes[i].name = value
    THEN CHOOSE i \in 1..Len(palettes) :
             /\ palettes[i].name = value
             /\ \A j \in (i + 1)..Len(palettes) : palettes[j].name # value
    ELSE 0

\* currentPalettes.find(p => p.name === value): its index, 0 when not found
findPalette(palettes, value) ==
    IF \E i \in 1..Len(palettes) : palettes[i].name = value
    THEN CHOOSE i \in 1..Len(palettes) :
             /\ palettes[i].name = value
             /\ \A j \in 1..(i - 1) : palettes[j].name # value
    ELSE 0

\* the store after the body of handleUserSelection
selectionOn(st, selectionType, value) ==
    IF selectionType = "font"
    THEN LET s1 == update(st, "typography", Arr(<<value>>))
         IN  sendToClient(s1, [type |-> "DNA_UPDATE", dna |-> getDNA(s1),
                               updatedField |-> "typography"])
    ELSE LET i == findPalette(st.currentPalettes, value)
         IN  IF i > 0
             THEN LET s1 == update(st, "colors", Arr(st.currentPalettes[i].colors))
                  IN  sendToClient(s1, [type |-> "DNA_UPDATE", dna |-> getDNA(s1),
                                        updatedField |-> "colors"])
             ELSE st

selectionStore(selectionType, value) == selectionOn(Store, selectionType, value)

\* a faulty handleUserSelection: the guard looks at the connection only
handleUserSelectionInactive(selectionType, value) ==
    /\ sessState = "registered"
    /\ IF geminiConnection # 0
       THEN /\ Commit(selectionStore(selectionType, value))
            /\ upOut' = sendText(geminiConnection, "selection")
       ELSE /\ out' = <<>>
            /\ upOut' = <<>>
            /\ UNCHANGED storeVars
    /\ ev' = [op |-> "USER_SELECTION", selectionType |-> selectionType,
              value |-> value]
    /\ UNCHANGED <<apiKeySet, sessState, wsOpen, geminiConnection, isActive,
                   connVars, passes, awaitingContent>>

\* handleUserSelection
handleUserSelection(selectionType, value) ==
    /\ sessState = "registered"
    /\ IF geminiConnection # 0 /\ isActive
       THEN /\ Commit(selectionStore(selectionType, value))
            /\ upOut' = sendText(geminiConnection, "selection")
       ELSE /\ out' = <<>>
            /\ upOut' = <<>>
            /\ UNCHANGED storeVars
    /\ ev' = [op |-> "USER_SELECTION", selectionType |-> selectionType,
              value |-> value]
    /\ UNCHANGED <<apiKeySet, sessState, wsOpen, geminiConnection, isActive,
                   connVars, passes, awaitingContent>>

\* handleUpdateDNA
handleUpdateDNA(field, value) ==
    /\ sessState = "registered"
    /\ LET s1 == update(Store, field, value)
       IN  Commit(sendToClient(s1, [type |-> "DNA_UPDATE", dna |-> getDNA(s1),
                                    updatedField |-> field]))
    /\ upOut' = <<>>
    /\ ev' = [op |-> "UPDATE_DNA", field |-> field, value |-> value]
    /\ UNCHANGED <<apiKeySet, sessState, wsOpen, geminiConnection, isActive,
                   connVars, passes, awaitingContent>>

\* ws.on('message') with data that is not JSON, or JSON without properties
\* (null): JSON.parse or the read of message.type throws and the catch of the
\* handler answers on the socket
messageInvalid ==
    /\ sessState = "registered"
    /\ out' = <<ErrorMsg(Undefined)>>
    /\ upOut' = <<>>
    /\ ev' = [op |-> "invalidMessage"]
    /\ UNCHANGED <<apiKeySet, sessState, wsOpen, geminiConnection, isActive,
                   storeVars, connVars, passes, awaitingContent>>

\* a faulty switch: the unknown type runs into the END_SESSION case
messageUnknownTypeEnding ==
    /\ sessState = "registered"
    /\ isActive' = FALSE
    /\ out' = <<>>
    /\ upOut' = <<>>
    /\ ev' = [op |-> "unknownType"]
    /\ UNCHANGED <<apiKeySet, sessState, wsOpen, geminiConnection,
                   storeVars, connVars, passes, awaitingContent>>

\* handleMessage, default: a message of no known type is logged
messageUnknownType ==
    /\ sessState = "registered"
    /\ out' = <<>>
    /\ upOut' = <<>>
    /\ ev' = [op |-> "unknownType"]
    /\ UNCHANGED <<apiKeySet, sessState, wsOpen, geminiConnection, isActive,
                   storeVars, connVars, passes, awaitingContent>>

-----------------------------------------------------------------------------
(* Upstream events of a connection (LiveConnection.ts, 136-159 and 261-423) *)

\* accumulatedUserInput.trim() is not empty
nonBlank(acc) == \E i \in 1..Len(acc) : acc[i] # " "

\* handleGeminiMessage, setupComplete
geminiSetupComplete(c) ==
    /\ upstream[c] = "open"
    /\ out' = <<>>
    /\ upOut' = <<>>
    /\ ev' = [op |-> "setupComplete", conn |-> c]
    /\ UNCHANGED <<apiKeySet, sessState, wsOpen, geminiConnection, isActive,
                   storeVars, connVars, passes, awaitingContent>>

\* handleGeminiMessage, toolCall: apply through the ToolHandler, then answer
geminiToolCall(c, calls) ==
    /\ upstream[c] = "open"
    /\ LET r == handleToolCalls(Store, calls)
       IN  /\ Commit(r.st)
           /\ upOut' = IF liveSession[c]
                       THEN <<[conn |-> c, kind |-> "toolResponse",
                               functionResponses |-> r.responses]>>
                       ELSE <<>>
    /\ awaitingContent' = [awaitingContent EXCEPT ![c] = TRUE]
    /\ ev' = [op |-> "toolCall", conn |-> c, calls |-> calls]
    /\ UNCHANGED <<apiKeySet, sessState, wsOpen, geminiConnection, isActive,
                   connVars, passes>>

\* the client messages of one serverContent message
contentOut(m) ==
    LET s1 == IF Has(m, "modelTurn") /\ m.modelTurn = "audio"
              THEN sendToClient(Store, [type |-> "AUDIO_CHUNK"]) ELSE Store
        s2 == IF TruthyKey(m, "outputTranscription")
              THEN sendToClient(s1, [type |-> "TRANSCRIPTION", role |-> "model",
                                     text |-> m.outputTranscription])
              ELSE s1
        s3 == IF TruthyKey(m, "inputTranscription")
              THEN sendToClient(s2, [type |-> "TRANSCRIPTION", role |-> "user",
                                     text |-> m.inputTranscription])
              ELSE s2
    IN  s3.out

\* history: c is the connection of a registered, active session
servesActive(c) == sessState = "registered" /\ isActive /\ geminiConnection = c

\* a faulty handler: the accumulator is not reset when a pass is started
geminiContentKeeping(c, m, cap) ==
    /\ upstream[c] = "open"
    /\ LET acc1 == IF TruthyKey(m, "inputTranscription")
                   THEN Append(accumulatedUserInput[c], m.inputTranscription)
                   ELSE accumulatedUserInput[c]
           starts == Has(m, "turnComplete") /\ nonBlank(acc1)
           acc2 == acc1
           acc3 == IF Has(m, "interrupted") THEN <<>> ELSE acc2
       IN  /\ Len(acc1) <= MaxAcc
           /\ starts => Len(passes) < cap
           /\ passes' = IF starts
                        THEN Append(passes, [conn |-> c, input |-> acc1,
                                             whileActive |-> servesActive(c)])
                        ELSE passes
           /\ accumulatedUserInput' = [accumulatedUserInput EXCEPT ![c] = acc3]
    /\ out' = contentOut(m)
    /\ upOut' = <<>>
    /\ awaitingContent' =
           [awaitingContent EXCEPT ![c] = IF Has(m, "modelTurn") THEN FALSE ELSE @]
    /\ ev' = [op |-> "serverContent", conn |-> c, msg |-> m]
    /\ UNCHANGED <<apiKeySet, sessState, wsOpen, geminiConnection, isActive,
                   storeVars, connPromise, liveSession, isConnected, upstream,
                   greetTimer>>

\* handleGeminiMessage, serverContent; a completed turn with a non-blank
\* transcript starts processUserInputForTools, which is not awaited
geminiContentWithin(c, m, cap) ==
    /\ upstream[c] = "open"
    /\ LET acc1 == IF TruthyKey(m, "inputTranscription")
                   THEN Append(accumulatedUserInput[c], m.inputTranscription)
                   ELSE accumulatedUserInput[c]
           starts == Has(m, "turnComplete") /\ nonBlank(acc1)
           acc2 == IF starts THEN <<>> ELSE acc1
           acc3 == IF Has(m, "interrupted") THEN <<>> ELSE acc2
       IN  /\ Len(acc1) <= MaxAcc
           /\ starts => Len(passes) < cap
           /\ passes' = IF starts
                        THEN Append(passes, [conn |-> c, input |-> acc1,
                                             whileActive |-> servesActive(c)])
                        ELSE passes
           /\ accumulatedUserInput' = [accumulatedUserInput EXCEPT ![c] = acc3]
    /\ out' = contentOut(m)
    /\ upOut' = <<>>
    /\ awaitingContent' =
           [awaitingContent EXCEPT ![c] = IF Has(m, "modelTurn") THEN FALSE ELSE @]
    /\ ev' = [op |-> "serverContent", conn |-> c, msg |-> m]
    /\ UNCHANGED <<apiKeySet, sessState, wsOpen, geminiConnection, isActive,
                   storeVars, connPromise, liveSession, isConnected, upstream,
                   greetTimer>>

geminiContent(c, m) == geminiContentWithin(c, m, MaxPasses)

\* s without its i-th element
removeAt(s, i) == [j \in 1..(Len(s) - 1) |-> IF j < i THEN s[j] ELSE s[j + 1]]

\* what generateContent does for a pass: it fails, or answers with calls
Failed == [failed |-> TRUE]
Answered(calls) == [failed |-> FALSE, calls |-> calls]

\* a faulty agent: the failure of generateContent is thrown to the caller
analyzeAndDecideToolsThrowing(o) ==
    [threw |-> o.failed, calls |-> IF o.failed THEN <<>> ELSE o.calls]

\* analyzeAndDecideTools from its try on: the calls of the answer, and [] from
\* the catch
analyzeAndDecideTools(o) ==
    [threw |-> FALSE, calls |-> IF o.failed THEN <<>> ELSE o.calls]

\* the toolSummary of processUserInputForTools:
\* JSON.stringify(tc.args).substring(0, 500) throws a TypeError for a call
\* without args, and the catch around the whole body only logs
summaryThrows(calls) == \E k \in 1..Len(calls) : ~Has(calls[k], "args")

\* processUserInputForTools after `await analyzeAndDecideTools`, o being what
\* generateContent did
decisionResolved(i, o) ==
    /\ i \in 1..Len(passes)
    /\ LET c == passes[i].conn
           r == analyzeAndDecideTools(o)
       IN  /\ IF r.threw
              THEN /\ out' = <<>>
                   /\ upOut' = <<>>
                   /\ UNCHANGED storeVars
              ELSE IF Len(r.calls) > 0
              THEN /\ Commit(handleToolCalls(Store, r.calls).st)
                   /\ upOut' = IF summaryThrows(r.calls) THEN <<>>
                               ELSE sendText(c, "feedback")
              ELSE /\ out' = <<>>
                   /\ upOut' = sendText(c, "pulse")
                   /\ UNCHANGED storeVars
           /\ ev' = [op |-> "decisionResolved", conn |-> c, failed |-> o.failed,
                     toolCalls |-> r.calls, whileActive |-> passes[i].whileActive]
    /\ passes' = removeAt(passes, i)
    /\ UNCHANGED <<apiKeySet, sessState, wsOpen, geminiConnection, isActive,
                   connVars, awaitingContent>>

\* the timer set by onopen fires: sendInitialGreeting
greetingTimer(c) ==
    /\ greetTimer[c]
    /\ greetTimer' = [greetTimer EXCEPT ![c] = FALSE]
    /\ upOut' = sendText(c, "greeting")
    /\ out' = <<>>
    /\ ev' = [op |-> "greetingTimer", conn |-> c]
    /\ UNCHANGED <<apiKeySet, sessState, wsOpen, geminiConnection, isActive,
                   storeVars, connPromise, liveSession, isConnected, upstream,
                   accumulatedUserInput, passes, awaitingContent>>

\* the upstream socket closes by itself: onclose
geminiClose(c) ==
    /\ upstream[c] = "open"
    /\ upstream' = [upstream EXCEPT ![c] = "closed"]
    /\ isConnected' = [isConnected EXCEPT ![c] = FALSE]
    /\ out' = <<>>
    /\ upOut' = <<>>
    /\ ev' = [op |-> "geminiClose", conn |-> c]
    /\ UNCHANGED <<apiKeySet, sessState, wsOpen, geminiConnection, isActive,
                   storeVars, connPromise, liveSession, greetTimer,
                   accumulatedUserInput, passes, awaitingContent>>

\* the upstream socket reports an error: onerror
geminiError(c) ==
    /\ upstream[c] = "open"
    /\ out' = sendToClient(Store, ErrorMsg("GEMINI_ERROR")).out
    /\ upOut' = <<>>
    /\ ev' = [op |-> "geminiError", conn |-> c]
    /\ UNCHANGED <<apiKeySet, sessState, wsOpen, geminiConnection, isActive,
                   storeVars, connVars, passes, awaitingContent>>

-----------------------------------------------------------------------------
(* Specifications *)

\* the Session object of createSession, before it (made = FALSE) and as made
NewSession ==
    [made |-> TRUE, wsOpen |-> TRUE, geminiConnection |-> "null",
     isActive |-> FALSE, dna |-> InitialDNA, progress |-> <<>>,
     currentPalettes |-> <<>>, currentFonts |-> <<>>, canvasMode |-> "none"]

NoSession == [NewSession EXCEPT !.made = FALSE, !.wsOpen = FALSE]

InitServer ==
    /\ apiKeySet \in BOOLEAN
    /\ sessState = "none"
    /\ wsOpen = FALSE
    /\ geminiConnection = 0
    /\ isActive = FALSE
    /\ dna = InitialDNA
    /\ progress = <<>>
    /\ currentPalettes = <<>>
    /\ currentFonts = <<>>
    /\ canvasMode = "none"
    /\ connPromise = [c \in ConnIds |-> "unused"]
    /\ liveSession = [c \in ConnIds |-> FALSE]
    /\ isConnected = [c \in ConnIds |-> FALSE]
    /\ upstream = [c \in ConnIds |-> "none"]
    /\ greetTimer = [c \in ConnIds |-> FALSE]
    /\ accumulatedUserInput = [c \in ConnIds |-> <<>>]
    /\ passes = <<>>
    /\ out = <<>>
    /\ upOut = <<>>
    /\ ev = [op |-> "init"]
    /\ awaitingContent = [c \in ConnIds |-> FALSE]
    /\ handled = 0
    /\ repeated = FALSE

\* the refs and React state of a freshly mounted Architect
InitArchitect ==
    /\ isLive = FALSE
    /\ isConnecting = FALSE
    /\ isToolProcessing = FALSE
    /\ isAudioWarmup = TRUE
    /\ activeSessionRef = 0
    /\ mediaRef = 0
    /\ attempt = [a \in AttemptIds |-> "unused"]
    /\ capture = [a \in AttemptIds |-> "none"]
    /\ onaudioprocess = [a \in AttemptIds |-> FALSE]
    /\ warmupTimers = <<>>
    /\ sent = <<>>
    /\ aev = [op |-> "init"]

\* a freshly constructed ToolDecisionAgent
InitAgent ==
    /\ conversationHistory = <<>>
    /\ analyzing = 0
    /\ pushed = 0
    /\ responses = 0
    /\ quiet = 0
    /\ gev = [op |-> "init"]

\* the refs of a freshly mounted useAudioStream
InitPlayback ==
    /\ now = 0
    /\ contexts = <<>>
    /\ outputContext = 0
    /\ nextPlayTime = 0
    /\ units = <<>>
    /\ activeSources = {}
    /\ pev = [op |-> "init"]

\* a SessionManager without sessions; NoSession stands for an id not yet made
InitRegistry ==
    /\ sessions = {}
    /\ sess = [s \in SessionIds |-> NoSession]
    /\ inbox = [s \in SessionIds |-> <<>>]
    /\ rev = [op |-> "init", sid |-> 0]
    /\ regHandled = 0

\* ArchitectMain as mounted: useState('none')
InitClient == suggestionMode = "none" /\ toClient = <<>>

Init ==
    /\ InitServer /\ InitArchitect /\ InitAgent /\ InitPlayback /\ InitRegistry
    /\ InitClient

\* the tool calls the session-lifecycle specification draws from
FewCallLists ==
    {<<[name |-> "display_color_suggestions",
        args |-> [palettes |-> <<[name |-> "Sunrise",
                                  colors |-> <<"#FF0000", "#FFA500">>]>>]],
       [name |-> "update_live_brand_dna", args |-> [brandName |-> "Acme"]]>>}

\* the serverContent messages the session-lifecycle specification draws from
FewContentMsgs ==
    {[modelTurn |-> "audio"],
     [inputTranscription |-> "hi", turnComplete |-> TRUE],
     [interrupted |-> TRUE]}

\* the budget of store-touching messages lasts
Budget == handled < MaxEvents

\* one more store-touching message has been handled
Counted ==
    /\ handled' = handled + 1
    /\ repeated' = (ev'.op = ev.op /\ ev' = ev)
    /\ UNCHANGED besideServer


\* what the decision agent's request may do in the lifecycle specifications
Outcomes == {Failed} \cup {Answered(calls) : calls \in FewCallLists \cup {<<>>}}

\* a step of the server leaves the history of SpecTools and the Architect alone
Free == UNCHANGED <<handled, repeated, besideServer>>

\* the session lifecycle: every handler, few tool payloads
Next ==
    \/ createSession /\ Free
    \/ WsClose /\ Free
    \/ WsError /\ Free
    \/ handleStartSession /\ Free
    \/ \E c \in ConnIds : connectResolved(c) /\ Free
    \/ \E c \in ConnIds : connectRejected(c) /\ Free
    \/ handleEndSession /\ Free
    \/ \E t \in BOOLEAN : handleAudioChunk(t) /\ Free
    \/ handleTextInput /\ Free
    \/ handleUserSelection("color", "Sunrise") /\ Free
    \/ \E c \in ConnIds : geminiSetupComplete(c) /\ Free
    \/ \E c \in ConnIds, calls \in FewCallLists :
          geminiToolCall(c, withId(calls)) /\ Free
    \/ \E c \in ConnIds, m \in FewContentMsgs : geminiContent(c, m) /\ Free
    \/ \E i \in 1..MaxPasses, o \in Outcomes : decisionResolved(i, o) /\ Free
    \/ \E c \in ConnIds : greetingTimer(c) /\ Free
    \/ \E c \in ConnIds : geminiClose(c) /\ Free
    \/ \E c \in ConnIds : geminiError(c) /\ Free

Spec == Init /\ [][Next]_vars

\* starting and stopping a session: the client's messages, the socket's events
\* and the connection's events, without transcripts and decision passes
NextStart ==
    \/ createSession /\ Free
    \/ WsClose /\ Free
    \/ WsError /\ Free
    \/ handleStartSession /\ Free
    \/ \E c \in ConnIds : connectResolved(c) /\ Free
    \/ \E c \in ConnIds : connectRejected(c) /\ Free
    \/ handleEndSession /\ Free
    \/ \E t \in BOOLEAN : handleAudioChunk(t) /\ Free
    \/ handleTextInput /\ Free
    \/ handleUserSelection("color", "Sunrise") /\ Free
    \/ \E c \in ConnIds : geminiSetupComplete(c) /\ Free
    \/ \E c \in ConnIds, calls \in FewCallLists :
          geminiToolCall(c, withId(calls)) /\ Free
    \/ \E c \in ConnIds : geminiContent(c, [modelTurn |-> "audio"]) /\ Free
    \/ \E c \in ConnIds : greetingTimer(c) /\ Free
    \/ \E c \in ConnIds : geminiClose(c) /\ Free
    \/ \E c \in ConnIds : geminiError(c) /\ Free

SpecStart == Init /\ [][NextStart]_vars

\* the serverContent messages of the decision-pass specification
PassContentMsgs ==
    {[modelTurn |-> "audio", outputTranscription |-> "ok"],
     [inputTranscription |-> "hi"],
     [inputTranscription |-> " ", turnComplete |-> TRUE],
     [inputTranscription |-> "hi", turnComplete |-> TRUE],
     [interrupted |-> TRUE]}

\* what the decision agent's request may do in the decision-pass
\* specification: also an answer whose function call carries no args
PassOutcomes == Outcomes \cup {Answered(<<[name |-> "update_live_brand_dna"]>>)}

\* decision passes of sessions started one at a time: a budget of transcripts
\* and pass outcomes, against END_SESSION, socket close and upstream close
NextPasses ==
    \/ createSession /\ Free
    \/ WsClose /\ Free
    \/ geminiConnection = 0 /\ handleStartSession /\ Free
    \/ \E c \in ConnIds : connectResolved(c) /\ Free
    \/ \E c \in ConnIds : connectRejected(c) /\ Free
    \/ handleEndSession /\ Free
    \/ \E c \in ConnIds, m \in PassContentMsgs :
          Budget /\ geminiContent(c, m) /\ Counted
    \/ \E i \in 1..MaxPasses, o \in PassOutcomes :
          Budget /\ decisionResolved(i, o) /\ Counted
    \/ \E c \in ConnIds : geminiClose(c) /\ Free
    \/ \E c \in ConnIds : geminiError(c) /\ Free

SpecPasses == Init /\ [][NextPasses]_vars

SelectionInputs ==
    {<<"color", "Sunrise">>, <<"color", "Unnamed Palette">>, <<"color", "Dusk">>,
     <<"font", "Lora">>}

UpdateInputs ==
    {<<"name", Str("Zed")>>, <<"colors", Str("#ABCDEF")>>,
     <<"typography", Arr(<<"Mono", "Inter">>)>>, <<"bogus", Str("x")>>,
     <<"mission", Undef>>}

\* the tool path of a session started once: every tool payload, click and edit,
\* and the messages that are none of these.
\* A call's id is optional.
NextTools ==
    \/ createSession /\ Free
    \/ geminiConnection = 0 /\ handleStartSession /\ Free
    \/ \E c \in ConnIds : connectResolved(c) /\ Free
    \/ \E calls \in CallLists, ids \in BOOLEAN :
          /\ Budget
          /\ geminiConnection # 0
          /\ geminiToolCall(geminiConnection, IF ids THEN withId(calls) ELSE calls)
          /\ Counted
    \/ \E x \in SelectionInputs : Budget /\ handleUserSelection(x[1], x[2]) /\ Counted
    \/ \E x \in UpdateInputs : Budget /\ handleUpdateDNA(x[1], x[2]) /\ Counted
    \/ Budget /\ messageInvalid /\ Counted
    \/ Budget /\ messageUnknownType /\ Counted

SpecTools == Init /\ [][NextTools]_vars

-----------------------------------------------------------------------------
(* The Architect component (src/unnamed/part_004, 115-435) *)

\* cleanup(): stop the capture the refs point to, null the refs, reset the flags.
\* The live session is dereferenced, never closed.
cleanup ==
    /\ capture' = IF mediaRef # 0 THEN [capture EXCEPT ![mediaRef] = "stopped"]
                  ELSE capture
    /\ mediaRef' = 0
    /\ activeSessionRef' = 0
    /\ isToolProcessing' = FALSE
    /\ isAudioWarmup' = TRUE
    /\ isConnecting' = FALSE

\* connectLive up to `await getUserMedia`: setIsConnecting(true) is overwritten
\* by the setIsConnecting(false) of cleanup() in the same batch
connectLive(a) ==
    /\ ~(isLive \/ isConnecting)
    /\ attempt[a] = "unused"
    /\ \A b \in AttemptIds : b < a => attempt[b] # "unused"
    /\ cleanup
    /\ attempt' = [attempt EXCEPT ![a] = "gum"]
    /\ sent' = <<>>
    /\ aev' = [op |-> "connectLive", a |-> a]
    /\ UNCHANGED <<isLive, onaudioprocess, warmupTimers>>

\* getUserMedia resolved: the refs are set and ai.live.connect is called
getUserMediaResolved(a) ==
    /\ attempt[a] = "gum"
    /\ attempt' = [attempt EXCEPT ![a] = "connecting"]
    /\ mediaRef' = a
    /\ capture' = [capture EXCEPT ![a] = "running"]
    /\ sent' = <<>>
    /\ aev' = [op |-> "getUserMediaResolved", a |-> a]
    /\ UNCHANGED <<isLive, isConnecting, isToolProcessing, isAudioWarmup,
                   activeSessionRef, onaudioprocess, warmupTimers>>

\* getUserMedia rejected: the catch of connectLive
getUserMediaRejected(a) ==
    /\ attempt[a] = "gum"
    /\ attempt' = [attempt EXCEPT ![a] = "failed"]
    /\ isLive' = FALSE
    /\ cleanup
    /\ sent' = <<>>
    /\ aev' = [op |-> "getUserMediaRejected", a |-> a]
    /\ UNCHANGED <<onaudioprocess, warmupTimers>>

\* onopen, then the .then of the session promise in the same task
onopen(a) ==
    /\ attempt[a] = "connecting"
    /\ attempt' = [attempt EXCEPT ![a] = "open"]
    /\ isLive' = TRUE
    /\ isConnecting' = FALSE
    /\ isAudioWarmup' = TRUE
    /\ warmupTimers' = Append(warmupTimers, a)
    /\ onaudioprocess' = [onaudioprocess EXCEPT ![a] = TRUE]
    /\ activeSessionRef' = a
    /\ sent' = <<>>
    /\ aev' = [op |-> "onopen", a |-> a]
    /\ UNCHANGED <<isToolProcessing, mediaRef, capture>>

\* the session promise rejects: its .catch
connectFailed(a) ==
    /\ attempt[a] = "connecting"
    /\ attempt' = [attempt EXCEPT ![a] = "failed"]
    /\ isLive' = FALSE
    /\ cleanup
    /\ sent' = <<>>
    /\ aev' = [op |-> "connectFailed", a |-> a]
    /\ UNCHANGED <<onaudioprocess, warmupTimers>>

\* the oldest pending 500 ms timeout fires
warmupTimeout ==
    /\ warmupTimers # <<>>
    /\ warmupTimers' = Tail(warmupTimers)
    /\ isAudioWarmup' = FALSE
    /\ sent' = <<>>
    /\ aev' = [op |-> "warmupTimeout", a |-> Head(warmupTimers)]
    /\ UNCHANGED <<isLive, isConnecting, isToolProcessing, activeSessionRef,
                   mediaRef, attempt, capture, onaudioprocess>>

\* whether the onaudioprocess handler gets as far as sendRealtimeInput
forwards == ~isAudioWarmup /\ ~isToolProcessing /\ activeSessionRef # 0

\* processor.onaudioprocess of attempt a: one capture frame
audioprocess(a) ==
    /\ capture[a] = "running"
    /\ onaudioprocess[a]
    /\ sent' = IF forwards /\ attempt[activeSessionRef] = "open"
               THEN <<[to |-> activeSessionRef, kind |-> "audio"]>>
               ELSE <<>>
    /\ aev' = [op |-> "audioprocess", a |-> a]
    /\ UNCHANGED <<isLive, isConnecting, isToolProcessing, isAudioWarmup,
                   activeSessionRef, mediaRef, attempt, capture, onaudioprocess,
                   warmupTimers>>

\* a faulty onmessage: the mic is unlocked once the tool response is sent
onmessageToolCallReleasing(a) ==
    /\ attempt[a] = "open"
    /\ isToolProcessing' = FALSE
    /\ sent' = IF activeSessionRef # 0 /\ attempt[activeSessionRef] = "open"
               THEN <<[to |-> activeSessionRef, kind |-> "toolResponse"]>>
               ELSE <<>>
    /\ aev' = [op |-> "toolCall", a |-> a]
    /\ UNCHANGED <<isLive, isConnecting, isAudioWarmup, activeSessionRef, mediaRef,
                   attempt, capture, onaudioprocess, warmupTimers>>

\* onmessage with a toolCall: lock the mic, answer through the active session
onmessageToolCall(a) ==
    /\ attempt[a] = "open"
    /\ isToolProcessing' = TRUE
    /\ sent' = IF activeSessionRef # 0 /\ attempt[activeSessionRef] = "open"
               THEN <<[to |-> activeSessionRef, kind |-> "toolResponse"]>>
               ELSE <<>>
    /\ aev' = [op |-> "toolCall", a |-> a]
    /\ UNCHANGED <<isLive, isConnecting, isAudioWarmup, activeSessionRef, mediaRef,
                   attempt, capture, onaudioprocess, warmupTimers>>

\* onmessage with serverContent: a modelTurn unlocks the mic
onmessageContent(a, modelTurn) ==
    /\ attempt[a] = "open"
    /\ isToolProcessing' = IF modelTurn THEN FALSE ELSE isToolProcessing
    /\ sent' = <<>>
    /\ aev' = [op |-> "serverContent", a |-> a, modelTurn |-> modelTurn]
    /\ UNCHANGED <<isLive, isConnecting, isAudioWarmup, activeSessionRef, mediaRef,
                   attempt, capture, onaudioprocess, warmupTimers>>

\* onerror of session a
onerror(a) ==
    /\ attempt[a] = "open"
    /\ isLive' = FALSE
    /\ cleanup
    /\ sent' = <<>>
    /\ aev' = [op |-> "onerror", a |-> a]
    /\ UNCHANGED <<attempt, onaudioprocess, warmupTimers>>

\* onclose of session a
onclose(a) ==
    /\ attempt[a] = "open"
    /\ attempt' = [attempt EXCEPT ![a] = "closed"]
    /\ isLive' = FALSE
    /\ cleanup
    /\ sent' = <<>>
    /\ aev' = [op |-> "onclose", a |-> a]
    /\ UNCHANGED <<onaudioprocess, warmupTimers>>

\* disconnectLive
disconnectLive ==
    /\ isLive
    /\ isLive' = FALSE
    /\ cleanup
    /\ sent' = <<>>
    /\ aev' = [op |-> "disconnectLive"]
    /\ UNCHANGED <<attempt, onaudioprocess, warmupTimers>>

\* sendTextMessage(text) with a non-blank text (typed, or from handleSelection)
sendTextMessage ==
    /\ sent' = IF activeSessionRef # 0 /\ ~isToolProcessing
                  /\ attempt[activeSessionRef] = "open"
               THEN <<[to |-> activeSessionRef, kind |-> "text"]>>
               ELSE <<>>
    /\ aev' = [op |-> "sendTextMessage"]
    /\ UNCHANGED <<isLive, isConnecting, isToolProcessing, isAudioWarmup,
                   activeSessionRef, mediaRef, attempt, capture, onaudioprocess,
                   warmupTimers>>

NextArchitect ==
    \/ \E a \in AttemptIds : connectLive(a) /\ UNCHANGED besideArchitect
    \/ \E a \in AttemptIds : getUserMediaResolved(a) /\ UNCHANGED besideArchitect
    \/ \E a \in AttemptIds : getUserMediaRejected(a) /\ UNCHANGED besideArchitect
    \/ \E a \in AttemptIds : onopen(a) /\ UNCHANGED besideArchitect
    \/ \E a \in AttemptIds : connectFailed(a) /\ UNCHANGED besideArchitect
    \/ warmupTimeout /\ UNCHANGED besideArchitect
    \/ \E a \in AttemptIds : audioprocess(a) /\ UNCHANGED besideArchitect
    \/ \E a \in AttemptIds : onmessageToolCall(a) /\ UNCHANGED besideArchitect
    \/ \E a \in AttemptIds, m \in BOOLEAN : onmessageContent(a, m) /\ UNCHANGED besideArchitect
    \/ \E a \in AttemptIds : onerror(a) /\ UNCHANGED besideArchitect
    \/ \E a \in AttemptIds : onclose(a) /\ UNCHANGED besideArchitect
    \/ disconnectLive /\ UNCHANGED besideArchitect
    \/ sendTextMessage /\ UNCHANGED besideArchitect

SpecArchitect == Init /\ [][NextArchitect]_vars

-----------------------------------------------------------------------------
(* The decision agent's conversation history (ToolDecisionAgent.ts) *)

\* private maxHistoryLength = 20
maxHistoryLength == 20

\* pushes, addModelResponse calls and requests without a tool call explored
MaxPushes == 23
MaxResponses == 1
MaxQuiet == 1

\* trimHistory(): slice(-maxHistoryLength) once the length exceeds the cap
trimHistory(h) ==
    IF Len(h) > maxHistoryLength
    THEN SubSeq(h, Len(h) - maxHistoryLength + 1, Len(h))
    ELSE h

\* conversationHistory.push({ role, text })
push(h, role) == Append(h, [role |-> role, n |-> pushed + 1])

\* analyzeAndDecideTools up to its await: the user message is pushed and the
\* history trimmed, then generateContent is requested
analyzeCalled ==
    /\ analyzing < MaxPasses
    /\ pushed < MaxPushes
    /\ conversationHistory' = trimHistory(push(conversationHistory, "user"))
    /\ pushed' = pushed + 1
    /\ analyzing' = analyzing + 1
    /\ gev' = [op |-> "analyzeCalled"]
    /\ UNCHANGED <<responses, quiet>>

\* analyzeAndDecideTools after its await: a note is pushed when the response
\* holds function calls; a failure goes to the catch
analyzeSettled(o) ==
    /\ analyzing > 0
    /\ LET calls == analyzeAndDecideTools(o).calls
           noted == ~o.failed /\ Len(calls) > 0
       IN  /\ IF noted THEN pushed < MaxPushes ELSE quiet < MaxQuiet
           /\ conversationHistory' =
                  IF noted THEN push(conversationHistory, "model")
                  ELSE conversationHistory
           /\ pushed' = IF noted THEN pushed + 1 ELSE pushed
           /\ quiet' = IF noted THEN quiet ELSE quiet + 1
           /\ gev' = [op |-> "analyzeSettled", noted |-> noted]
    /\ analyzing' = analyzing - 1
    /\ UNCHANGED responses

\* addModelResponse(text): push, then trim
addModelResponse ==
    /\ responses < MaxResponses
    /\ pushed < MaxPushes
    /\ conversationHistory' = trimHistory(push(conversationHistory, "model"))
    /\ pushed' = pushed + 1
    /\ responses' = responses + 1
    /\ gev' = [op |-> "addModelResponse"]
    /\ UNCHANGED <<analyzing, quiet>>

besideAgent == <<srvVars, archVars, playVars, regVars, clientVars>>

NextAgent ==
    \/ analyzeCalled /\ UNCHANGED besideAgent
    \/ \E o \in Outcomes : analyzeSettled(o) /\ UNCHANGED besideAgent
    \/ addModelResponse /\ UNCHANGED besideAgent

SpecAgent == Init /\ [][NextAgent]_vars

-----------------------------------------------------------------------------
(* Playback of the useAudioStream hook (client/src/hooks/useAudioStream.ts) *)

\* ticks of the wall clock, buffer sources and output contexts explored
MaxTime == 2
MaxUnits == 2
MaxContexts == 2

\* buffer.duration of a decodable chunk, in ticks
Durations == {1, 2}

\* a chunk that does not decode: atob or the Int16Array view throws
Malformed == 0

\* ctx.currentTime: every AudioContext counts from its own creation
currentTime(c) == now - contexts[c].born

\* new AudioCtx(...)
newContext == Append(contexts, [born |-> now, closed |-> FALSE])

\* the wall-clock interval a unit was scheduled for
wallStart(u) == contexts[u.ctx].born + u.start
wallEnd(u) == contexts[u.ctx].born + u.end

\* the unit is or will be heard: not stopped, its context not closed
audible(u) == ~u.stopped /\ ~contexts[u.ctx].closed

\* startRecording after getUserMedia resolved: the output context is replaced
\* by a new one (the previous one is not closed) and the cursor reset
startRecording ==
    /\ Len(contexts) < MaxContexts
    /\ contexts' = newContext
    /\ outputContext' = Len(contexts) + 1
    /\ nextPlayTime' = 0
    /\ pev' = [op |-> "startRecording"]
    /\ UNCHANGED <<now, units, activeSources>>

\* stopRecording: the current output context is closed and the ref cleared
stopRecording ==
    /\ contexts' = IF outputContext # 0
                   THEN [contexts EXCEPT ![outputContext].closed = TRUE]
                   ELSE contexts
    /\ outputContext' = 0
    /\ pev' = [op |-> "stopRecording"]
    /\ UNCHANGED <<now, nextPlayTime, units, activeSources>>

\* Math.max(ctx.currentTime, nextPlayTimeRef.current)
schedule(t, cursor) == IF t >= cursor THEN t ELSE cursor

\* playAudio(base64Audio) for a chunk of duration d (Malformed: none)
playAudio(d) ==
    /\ outputContext = 0 => Len(contexts) < MaxContexts
    /\ d # Malformed => Len(units) < MaxUnits
    /\ LET fresh == outputContext = 0
           ctxs == IF fresh THEN newContext ELSE contexts
           c == IF fresh THEN Len(contexts) + 1 ELSE outputContext
           cursor == IF fresh THEN 0 ELSE nextPlayTime
           startTime == schedule(now - ctxs[c].born, cursor)
       IN  /\ contexts' = ctxs
           /\ outputContext' = c
           /\ IF d = Malformed
              THEN /\ nextPlayTime' = cursor
                   /\ UNCHANGED <<units, activeSources>>
              ELSE /\ units' = Append(units, [ctx |-> c, start |-> startTime,
                                              end |-> startTime + d,
                                              stopped |-> FALSE])
                   /\ activeSources' = activeSources \cup {Len(units) + 1}
                   /\ nextPlayTime' = startTime + d
           /\ pev' = [op |-> "playAudio", decoded |-> d # Malformed]
    /\ UNCHANGED now

\* a faulty stopPlayback: the tracked set is cleared, the sources play on
stopPlaybackClearingOnly ==
    /\ activeSources' = {}
    /\ nextPlayTime' = 0
    /\ pev' = [op |-> "stopPlayback"]
    /\ UNCHANGED <<now, contexts, outputContext, units>>

\* stopPlayback(): stop every tracked source, clear the set, reset the cursor
stopPlayback ==
    /\ units' = [u \in DOMAIN units |->
                    IF u \in activeSources THEN [units[u] EXCEPT !.stopped = TRUE]
                    ELSE units[u]]
    /\ activeSources' = {}
    /\ nextPlayTime' = 0
    /\ pev' = [op |-> "stopPlayback"]
    /\ UNCHANGED <<now, contexts, outputContext>>

\* source.onended of a unit that played to its end
onended(u) ==
    /\ u \in activeSources
    /\ audible(units[u])
    /\ wallEnd(units[u]) <= now
    /\ activeSources' = activeSources \ {u}
    /\ pev' = [op |-> "onended"]
    /\ UNCHANGED <<now, contexts, outputContext, nextPlayTime, units>>

\* the wall clock advances
tick ==
    /\ now < MaxTime
    /\ now' = now + 1
    /\ pev' = [op |-> "tick"]
    /\ UNCHANGED <<contexts, outputContext, nextPlayTime, units, activeSources>>

besidePlayback == <<srvVars, archVars, agentVars, regVars, clientVars>>

NextPlayback ==
    \/ startRecording /\ UNCHANGED besidePlayback
    \/ stopRecording /\ UNCHANGED besidePlayback
    \/ \E d \in Durations \cup {Malformed} : playAudio(d) /\ UNCHANGED besidePlayback
    \/ stopPlayback /\ UNCHANGED besidePlayback
    \/ \E u \in 1..MaxUnits : onended(u) /\ UNCHANGED besidePlayback
    \/ tick /\ UNCHANGED besidePlayback

SpecPlayback == Init /\ [][NextPlayback]_vars

-----------------------------------------------------------------------------
(* SessionManager with several sessions (SessionManager.ts, 24-105 and 275-280) *)
(* The connection of a session is reduced to "null" | "pending" | "open" |     *)
(* "failed" | "closed"; a START_SESSION is sent when none is pending or open.  *)

\* the store the closures of session s reach; sendToClient(s, ...) finds the
\* entry of s in the map and writes when its socket is open
StoreOf(s) ==
    [dna |-> sess[s].dna, progress |-> sess[s].progress,
     currentPalettes |-> sess[s].currentPalettes,
     currentFonts |-> sess[s].currentFonts, canvasMode |-> sess[s].canvasMode,
     open |-> (s \in sessions /\ sess[s].wsOpen), out |-> <<>>]

\* the Session object o with the fields of the store st
withStore(o, st) ==
    [o EXCEPT !.dna = st.dna, !.progress = st.progress,
              !.currentPalettes = st.currentPalettes,
              !.currentFonts = st.currentFonts, !.canvasMode = st.canvasMode]

\* a faulty sendToClient: the message goes to every open socket of the map
deliverToAll(s, msgs) ==
    [t \in SessionIds |-> IF t \in sessions /\ sess[t].wsOpen THEN msgs ELSE <<>>]

\* sendToClient(s, ...): session.ws.send of the entry found under s
deliver(s, msgs) == [t \in SessionIds |-> IF t = s THEN msgs ELSE <<>>]

\* wss.on('connection'): createSession(ws); ids are made in order
connection(s) ==
    /\ ~sess[s].made
    /\ \A t \in SessionIds : t < s => sess[t].made
    /\ sessions' = sessions \cup {s}
    /\ sess' = [sess EXCEPT ![s] = NewSession]
    /\ inbox' = deliver(s, <<ConnectionStatus(FALSE)>>)
    /\ rev' = [op |-> "connection", sid |-> s]
    /\ UNCHANGED regHandled

\* ws.on('close') / ws.on('error'): destroySession(s)
socketClosed(s) ==
    /\ sess[s].made /\ sess[s].wsOpen
    /\ sessions' = sessions \ {s}
    /\ sess' = [sess EXCEPT ![s].wsOpen = FALSE,
                            ![s].geminiConnection =
                                IF s \in sessions /\ @ = "open" THEN "closed" ELSE @]
    /\ inbox' = deliver(s, <<>>)
    /\ rev' = [op |-> "socketClosed", sid |-> s]
    /\ UNCHANGED regHandled

\* handleMessage(s, START_SESSION) up to the await
startOf(s) ==
    /\ s \in sessions /\ sess[s].wsOpen
    /\ sess[s].geminiConnection \in {"null", "failed"}
    /\ sess' = [sess EXCEPT ![s].geminiConnection = "pending"]
    /\ inbox' = deliver(s, <<>>)
    /\ rev' = [op |-> "START_SESSION", sid |-> s]
    /\ UNCHANGED <<sessions, regHandled>>

\* handleStartSession of s after the await: connect() resolved or rejected
connectSettled(s, ok) ==
    /\ sess[s].geminiConnection = "pending"
    /\ sess' = [sess EXCEPT ![s].geminiConnection = IF ok THEN "open" ELSE "failed",
                            ![s].isActive = IF ok THEN TRUE ELSE @]
    /\ inbox' = deliver(s,
          IF ok
          THEN sendToClient(sendToClient(StoreOf(s),
                                [type |-> "SESSION_STARTED", sessionId |-> "s"]),
                            ConnectionStatus(TRUE)).out
          ELSE sendToClient(StoreOf(s), ErrorMsg("GEMINI_CONNECTION_FAILED")).out)
    /\ rev' = [op |-> "connectSettled", sid |-> s]
    /\ UNCHANGED <<sessions, regHandled>>

\* handleMessage(s, END_SESSION)
endOf(s) ==
    /\ s \in sessions /\ sess[s].wsOpen
    /\ sess' = [sess EXCEPT ![s].geminiConnection = "null", ![s].isActive = FALSE]
    /\ inbox' = deliver(s, sendToClient(sendToClient(StoreOf(s),
                                            [type |-> "SESSION_ENDED"]),
                                        ConnectionStatus(FALSE)).out)
    /\ rev' = [op |-> "END_SESSION", sid |-> s]
    /\ UNCHANGED <<sessions, regHandled>>

\* a toolCall message on the open connection of s
toolCallOf(s, calls) ==
    /\ sess[s].geminiConnection = "open"
    /\ LET st == handleToolCalls(StoreOf(s), calls).st
       IN  /\ sess' = [sess EXCEPT ![s] = withStore(@, st)]
           /\ inbox' = deliver(s, st.out)
    /\ rev' = [op |-> "toolCall", sid |-> s]
    /\ regHandled' = regHandled + 1
    /\ UNCHANGED sessions

\* handleMessage(s, USER_SELECTION)
selectionOf(s, selectionType, value) ==
    /\ s \in sessions /\ sess[s].wsOpen
    /\ LET st == IF sess[s].geminiConnection # "null" /\ sess[s].isActive
                 THEN selectionOn(StoreOf(s), selectionType, value)
                 ELSE StoreOf(s)
       IN  /\ sess' = [sess EXCEPT ![s] = withStore(@, st)]
           /\ inbox' = deliver(s, st.out)
    /\ rev' = [op |-> "USER_SELECTION", sid |-> s]
    /\ regHandled' = regHandled + 1
    /\ UNCHANGED sessions

\* handleMessage(s, UPDATE_DNA)
updateOf(s, field, value) ==
    /\ s \in sessions /\ sess[s].wsOpen
    /\ LET s1 == update(StoreOf(s), field, value)
           st == sendToClient(s1, [type |-> "DNA_UPDATE", dna |-> getDNA(s1),
                                   updatedField |-> field])
       IN  /\ sess' = [sess EXCEPT ![s] = withStore(@, st)]
           /\ inbox' = deliver(s, st.out)
    /\ rev' = [op |-> "UPDATE_DNA", sid |-> s]
    /\ regHandled' = regHandled + 1
    /\ UNCHANGED sessions

besideRegistry == <<srvVars, archVars, agentVars, playVars, clientVars>>

\* the budget of store-touching events of the several-session specification
RegBudget == regHandled < MaxEvents

NextRegistry ==
    \/ \E s \in SessionIds : connection(s) /\ UNCHANGED besideRegistry
    \/ \E s \in SessionIds : socketClosed(s) /\ UNCHANGED besideRegistry
    \/ \E s \in SessionIds : startOf(s) /\ UNCHANGED besideRegistry
    \/ \E s \in SessionIds, ok \in BOOLEAN :
          connectSettled(s, ok) /\ UNCHANGED besideRegistry
    \/ \E s \in SessionIds : endOf(s) /\ UNCHANGED besideRegistry
    \/ \E s \in SessionIds, calls \in FewCallLists :
          RegBudget /\ toolCallOf(s, calls) /\ UNCHANGED besideRegistry
    \/ \E s \in SessionIds :
          RegBudget /\ selectionOf(s, "color", "Sunrise") /\ UNCHANGED besideRegistry
    \/ \E s \in SessionIds :
          RegBudget /\ updateOf(s, "name", Str("Zed")) /\ UNCHANGED besideRegistry

SpecRegistry == Init /\ [][NextRegistry]_vars

-----------------------------------------------------------------------------
(* Properties of the tool path (SpecTools) *)

\* the argument key of update_live_brand_dna that writes a DNA field
ArgKey ==
    [name |-> "brandName", mission |-> "mission", colors |-> "selectedColors",
     typography |-> "selectedFont", voice |-> "voice"]

isDnaCall(fc) == fc.name = "update_live_brand_dna" /\ Has(fc, "args")

\* some update_live_brand_dna call of the list carries the key
Supplied(calls, key) ==
    \E i \in 1..Len(calls) : isDnaCall(calls[i]) /\ Has(calls[i].args, key)

\* the DNA_UPDATE messages among msgs
DnaUpdates(msgs) == SelectSeq(msgs, LAMBDA m : m.type = "DNA_UPDATE")

AbsentFieldsKept ==
    ev'.op = "toolCall" =>
        \A f \in DOMAIN ArgKey :
            ~Supplied(ev'.calls, ArgKey[f]) => dna'[f] = dna[f]

\* C3: a tool-call message leaves every DNA field (name, mission, colors,
\* typography, voice) that none of its update_live_brand_dna calls carries at
\* the value it had before the message.
C3_AbsentFieldsNeverCleared == [][AbsentFieldsKept]_vars

\* a call carrying only a mission has been applied to a DNA whose name was set
C3_MissionOnlyAfterName ==
    /\ ev.op = "toolCall"
    /\ Len(ev.calls) = 1
    /\ isDnaCall(ev.calls[1])
    /\ DOMAIN ev.calls[1].args = {"mission"}
    /\ dna.mission = "Sell"
    /\ dna.name \in {"Acme", "Bolt", "Zed"}

\* every call of the list is the same update_live_brand_dna call with args
sameDnaCall(calls) ==
    /\ Len(calls) > 0
    /\ \A i \in 1..Len(calls) : isDnaCall(calls[i]) /\ calls[i] = calls[1]

SecondApplicationSame ==
    /\ (/\ ev.op = "toolCall"
        /\ ev'.op = "toolCall"
        /\ ev'.calls = ev.calls
        /\ sameDnaCall(ev.calls))
       => /\ dna' = dna
          /\ DnaUpdates(out') = DnaUpdates(out)
    /\ (ev'.op = "toolCall" /\ sameDnaCall(ev'.calls))
       => \A i \in 1..Len(DnaUpdates(out')) :
              DnaUpdates(out')[i] = DnaUpdates(out')[1]

\* C4: when a message repeats the update_live_brand_dna call of the message
\* before it, the DNA is the same after the second as after the first and the
\* second DNA_UPDATE (snapshot and updatedField) equals the first; the same
\* holds between the repetitions of one call within a message.
C4_RepeatedUpdateIdempotent == [][SecondApplicationSame]_vars

\* the same colour-carrying call has been applied twice in a row
C4_SameCallTwice ==
    /\ repeated
    /\ ev.op = "toolCall"
    /\ Len(ev.calls) = 1
    /\ isDnaCall(ev.calls[1])
    /\ Has(ev.calls[1].args, "selectedColors")
    /\ dna.colors = <<"#111111", "#222222">>
    /\ Len(DnaUpdates(out)) = 1

\* C5: after a colour USER_SELECTION of value v on an active session whose
\* canvas holds a palette named v, dna.colors is the colour sequence of the
\* first such palette and the one DNA_UPDATE sent carries that DNA with
\* updatedField "colors".
C5_ColorSelectionSetsPaletteColors ==
    (/\ ev.op = "USER_SELECTION"
     /\ ev.selectionType = "color"
     /\ geminiConnection # 0
     /\ isActive
     /\ \E i \in 1..Len(currentPalettes) : currentPalettes[i].name = ev.value)
    => /\ \E i \in 1..Len(currentPalettes) :
              /\ currentPalettes[i].name = ev.value
              /\ \A j \in 1..(i - 1) : currentPalettes[j].name # ev.value
              /\ dna.colors = currentPalettes[i].colors
       /\ out = <<[type |-> "DNA_UPDATE", dna |-> dna, updatedField |-> "colors"]>>

\* "Sunrise" was clicked while two palettes of that name were on the canvas
C5_SunriseSelected ==
    /\ ev.op = "USER_SELECTION"
    /\ ev.selectionType = "color"
    /\ ev.value = "Sunrise"
    /\ isActive
    /\ Len(currentPalettes) = 2
    /\ currentPalettes[2].name = "Sunrise"
    /\ dna.colors = <<"#FF0000", "#FFA500">>
    /\ Len(out) = 1

\* C10: the tool response of a tool-call message has one result per call, in
\* the order of the calls, each with the call's name, result "success", the
\* call's args echoed and the call's id when it has one.
C10_EveryResultSuccessWithArgs ==
    (ev.op = "toolCall" /\ upOut # <<>>) =>
        LET rs == upOut[1].functionResponses
        IN  /\ Len(rs) = Len(ev.calls)
            /\ \A i \in 1..Len(ev.calls) :
                   /\ rs[i].name = ev.calls[i].name
                   /\ rs[i].response.result = "success"
                   /\ Has(ev.calls[i], "args") =>
                          \A k \in DOMAIN ev.calls[i].args :
                              /\ Has(rs[i].response, k)
                              /\ rs[i].response[k] = ev.calls[i].args[k]
                   /\ Has(ev.calls[i], "id") =>
                          Has(rs[i], "id") /\ rs[i].id = ev.calls[i].id

-----------------------------------------------------------------------------
(* Properties of the session lifecycle (Spec) *)

\* C1: no audio frame is forwarded to a connection that has received a
\* tool-call message and no message with a modelTurn since.
C1_NoAudioWhileToolPending ==
    \A i \in 1..Len(upOut) :
        upOut[i].kind = "audio" => ~awaitingContent[upOut[i].conn]

SessionStarted == [type |-> "SESSION_STARTED", sessionId |-> "s"]

GeminiConnected ==
    [type |-> "CONNECTION_STATUS", status |-> "connected", geminiConnected |-> TRUE]

\* C6: when connect() has resolved for a session still registered, the
\* messages sent are SESSION_STARTED and then CONNECTION_STATUS with
\* geminiConnected true; either of the two is sent only by that step, with the
\* connection's channel open and the session marked active.
C6_StartedThenConnected ==
    /\ (ev.op = "connectResolved" /\ sessState = "registered")
       => out = <<SessionStarted, GeminiConnected>>
    /\ (\E i \in 1..Len(out) : out[i] = SessionStarted \/ out[i] = GeminiConnected)
       => /\ out = <<SessionStarted, GeminiConnected>>
          /\ ev.op = "connectResolved"
          /\ connPromise[ev.conn] = "resolved"
          /\ upstream[ev.conn] = "open"
          /\ liveSession[ev.conn]
          /\ isActive

\* the first START_SESSION of a session has just succeeded
C6_FirstStartSucceeded ==
    /\ ev = [op |-> "connectResolved", conn |-> 1]
    /\ geminiConnection = 1
    /\ out = <<SessionStarted, GeminiConnected>>
    /\ isActive

\* the step is the failure of a START_SESSION to open its channel
openFailed ==
    \/ ev'.op = "connectRejected"
    \/ ev'.op = "START_SESSION" /\ ~apiKeySet

FailedStartStep ==
    openFailed =>
        /\ isActive' = isActive
        /\ sessState' = sessState
        /\ out' = IF sessState = "registered"
                  THEN <<[type |-> "ERROR", code |-> "GEMINI_CONNECTION_FAILED"]>>
                  ELSE <<>>

\* C7: the step in which a START_SESSION fails to open its channel leaves the
\* active flag as it was (an idle session stays idle), leaves the session
\* registered so that a later START_SESSION is handled, and sends to a client
\* still connected exactly one message, an ERROR with code
\* GEMINI_CONNECTION_FAILED, and no SESSION_STARTED.
C7_FailedStartStaysIdle == [][FailedStartStep]_vars

\* the first open failed, the session stayed idle, and the retry succeeded
C7_RetryAfterFailure ==
    /\ connPromise[1] = "rejected"
    /\ ev = [op |-> "connectResolved", conn |-> 2]
    /\ geminiConnection = 2
    /\ isActive
    /\ out = <<SessionStarted, GeminiConnected>>

\* C8: once the session is destroyed, no upstream channel opened for it is open.
C8_NoChannelOpenAfterDestroy ==
    sessState = "destroyed" => \A c \in ConnIds : upstream[c] # "open"

\* the session has been ended and not started again, or destroyed
endedOrDestroyed ==
    sessState = "destroyed" \/ (geminiConnection = 0 /\ ~isActive)

LatePassDiscarded ==
    (ev'.op = "decisionResolved" /\ ev'.whileActive /\ endedOrDestroyed) =>
        /\ UNCHANGED storeVars
        /\ out' = <<>>
        /\ upOut' = <<>>

\* C9: a decision pass started for an active session that resolves when the
\* session has been ended or destroyed changes neither brand state nor canvas state and sends nothing to the
\* client or upstream.
C9_LatePassDiscarded == [][LatePassDiscarded]_vars

\* C19: when the upstream socket of the running session's connection closes
\* or reports an error, the connection is no longer taken as connected and the
\* client is sent a CONNECTION_STATUS with geminiConnected false.
C19_UpstreamLossReported ==
    (/\ ev.op \in {"geminiClose", "geminiError"}
     /\ ev.conn = geminiConnection
     /\ isActive
     /\ sessState = "registered" /\ wsOpen)
    => /\ ~isConnected[ev.conn]
       /\ \E i \in 1..Len(out) :
              out[i].type = "CONNECTION_STATUS" /\ ~out[i].geminiConnected

-----------------------------------------------------------------------------
(* Properties of the Architect component (SpecArchitect) *)

\* C2: no capture frame is forwarded to a session whose 500 ms warmup timeout
\* is still pending.
C2_NoFrameDuringWarmup ==
    \A i \in 1..Len(sent) :
        sent[i].kind = "audio" =>
            \A j \in 1..Len(warmupTimers) : warmupTimers[j] # sent[i].to

-----------------------------------------------------------------------------
(* Further properties of the tool path (SpecTools) *)

\* the DNA fields in the priority order of the updatedField tag
Priority == <<"name", "mission", "colors", "typography", "voice">>

\* the call's args carry a value for DNA field f: a non-empty string or array
carried(args, f) ==
    /\ Has(args, ArgKey[f])
    /\ IF f = "colors" THEN args[ArgKey[f]] # <<>> ELSE args[ArgKey[f]] # ""

\* C11: the DNA_UPDATE of an update_live_brand_dna call that carries a value
\* for at least one field is tagged with the first field, in the order name,
\* mission, colors, typography, voice, that the call carries a value for.
C11_UpdatedFieldIsFirstCarried ==
    (/\ ev.op = "toolCall"
     /\ Len(ev.calls) = 1
     /\ isDnaCall(ev.calls[1])
     /\ \E f \in DOMAIN ArgKey : carried(ev.calls[1].args, f))
    => \E i \in 1..Len(Priority) :
           /\ carried(ev.calls[1].args, Priority[i])
           /\ \A j \in 1..(i - 1) : ~carried(ev.calls[1].args, Priority[j])
           /\ Len(DnaUpdates(out)) = 1
           /\ DnaUpdates(out)[1].updatedField = Priority[i]

\* every field of the DNA record d holds a value of its type
fullyDefined(d) ==
    /\ \A f \in {"name", "mission", "voice"} : Has(d, f) /\ d[f] # Undefined
    /\ \A f \in {"colors", "typography"} :
          Has(d, f) /\ \A i \in 1..Len(d[f]) : d[f][i] # Undefined

\* C16: whatever tool calls, USER_SELECTIONs and UPDATE_DNAs were handled, the
\* DNA record read from the store is fully defined, and so is the record of
\* every DNA_UPDATE sent to the client.
C16_DnaFullyDefined ==
    /\ fullyDefined(getDNA(Store))
    /\ \A i \in 1..Len(DnaUpdates(out)) : fullyDefined(DnaUpdates(out)[i].dna)

Dropped == {"invalidMessage", "unknownType"}

\* a message that is no JSON object or of no known type leaves the store, the
\* active flag, the connection and the registration of the session as they
\* are; the edit that follows it is applied and answered with a DNA_UPDATE
DroppedMessage ==
    /\ ev'.op \in Dropped =>
           /\ sessState' = "registered"
           /\ upOut' = <<>>
           /\ UNCHANGED <<storeVars, isActive, geminiConnection, connVars,
                          sessState, wsOpen, passes>>
    /\ (ev.op \in Dropped /\ ev'.op = "UPDATE_DNA" /\ ev'.field = "name") =>
           /\ dna'.name = AsStr(ev'.value)
           /\ Len(DnaUpdates(out')) = 1
           /\ DnaUpdates(out')[1].dna = dna'

\* C17: an inbound message that is not valid JSON or has an unknown type
\* changes no session state (DNA, canvas, active flag, channel) and leaves the
\* session registered; a valid message after it is handled normally.
C17_InvalidMessageDropped == [][DroppedMessage]_vars

\* a message has just been dropped on a running session that holds an edit
C17_DroppedOnRunningSession ==
    /\ ev.op \in Dropped
    /\ sessState = "registered"
    /\ isActive
    /\ dna.name = "Zed"

-----------------------------------------------------------------------------
(* Properties of the decision passes (SpecPasses) *)

\* a pass whose request to the decision agent failed ends exactly as a pass
\* that found no tool to call: the upstream pulse is sent when the session can
\* still send, nothing goes to the client, and neither the store nor the
\* state of the session and of its live connection changes
FailedPassIsNoTools ==
    ev'.op = "decisionResolved" /\ ev'.failed =>
        /\ ev'.toolCalls = <<>>
        /\ out' = <<>>
        /\ upOut' = sendText(ev'.conn, "pulse")
        /\ UNCHANGED <<storeVars, sessState, wsOpen, isActive, geminiConnection,
                       liveSession, isConnected, upstream>>

\* C12: a failure inside the decision agent is answered with an empty list of
\* tool calls and handled as 'no tools': no error reaches the client and the
\* live conversation keeps running.
C12_AgentFailureIsNoTools == [][FailedPassIsNoTools]_vars

\* a failed pass of the running session has just been followed by the pulse
C12_FailedPassPulsed ==
    /\ ev.op = "decisionResolved"
    /\ ev.failed
    /\ isActive
    /\ ev.conn = geminiConnection
    /\ upOut = <<[conn |-> ev.conn, kind |-> "pulse"]>>

-----------------------------------------------------------------------------
(* Properties of the decision agent's history (SpecAgent) *)

\* C13: the conversation history never holds more than maxHistoryLength
\* entries, and what it holds are the latest entries pushed, in the order they
\* were pushed (the oldest are the ones evicted).
C13_HistoryWithinCap ==
    /\ Len(conversationHistory) <= maxHistoryLength
    /\ \A i \in 1..Len(conversationHistory) :
           conversationHistory[i].n = pushed - Len(conversationHistory) + i

-----------------------------------------------------------------------------
(* Properties of playback (SpecPlayback) *)

\* the unit scheduled last
lastUnit == units[Len(units)]

\* the unit is playing or waiting to play
inFlight(u) == audible(u) /\ wallEnd(u) > now

noneInFlight == \A u \in DOMAIN units : ~inFlight(units[u])

\* C14: a unit starts at max(now, end of the unit scheduled before it) while
\* that unit can still be heard, so a unit that arrives before the previous
\* one has finished starts exactly at its end; and no two units that can be
\* heard overlap.
C14_UnitsBackToBack ==
    /\ (/\ pev.op = "playAudio" /\ pev.decoded
        /\ Len(units) >= 2
        /\ audible(units[Len(units) - 1]))
       => wallStart(lastUnit) =
              IF now >= wallEnd(units[Len(units) - 1])
              THEN now ELSE wallEnd(units[Len(units) - 1])
    /\ \A i, j \in DOMAIN units :
          i < j /\ audible(units[i]) /\ audible(units[j])
              => wallEnd(units[i]) <= wallStart(units[j])

\* C15 as stated: stopPlayback leaves no unit in flight, empties the tracked
\* set and sets the cursor to the current time of the output context.
C15_CursorResetToNow ==
    pev.op = "stopPlayback" =>
        /\ noneInFlight
        /\ activeSources = {}
        /\ outputContext # 0 => nextPlayTime = currentTime(outputContext)

\* stopPlayback leaves no unit in flight, empties the tracked set and sets
\* the cursor to zero; a unit never starts before the time it is scheduled at
StopPlaybackStep ==
    /\ pev'.op = "stopPlayback" =>
           noneInFlight' /\ activeSources' = {} /\ nextPlayTime' = 0
    /\ pev'.op = "playAudio" /\ pev'.decoded => wallStart(lastUnit)' >= now'

\* C15 (amended): stopPlayback stops every in-flight unit, empties the tracked
\* set and resets the cursor to zero; as a start is max(now, cursor), any unit
\* scheduled afterwards starts no earlier than the current time.
C15_StopPlaybackResets == [][StopPlaybackStep]_vars

\* a unit was scheduled, some time after the start of its context, behind a
\* unit that stopPlayback cut short: it starts at the current time
C15_ScheduledAfterStop ==
    /\ pev.op = "playAudio" /\ pev.decoded
    /\ Len(units) >= 2
    /\ units[Len(units) - 1].stopped
    /\ units[Len(units) - 1].ctx = lastUnit.ctx
    /\ units[Len(units) - 1].end > lastUnit.start
    /\ lastUnit.start = currentTime(lastUnit.ctx)
    /\ lastUnit.start > 0

-----------------------------------------------------------------------------
(* Properties of the session registry (SpecRegistry) *)

\* the step, handled for session rev'.sid, leaves every other session's object
\* (DNA, progress, canvas, active flag, connection) and registry entry as they
\* are and writes nothing to its socket
OthersUntouched ==
    \A b \in SessionIds :
        b # rev'.sid =>
            /\ sess'[b] = sess[b]
            /\ inbox'[b] = <<>>
            /\ b \in sessions => b \in sessions'

\* C18: whatever is handled for a session A (start, end, tool calls,
\* selections, edits, destroy), the state of another session B is unchanged,
\* nothing is sent to B's client, and B's registry entry stays.
C18_SessionsIsolated == [][OthersUntouched]_vars

\* session 1 took a tool call and was then destroyed while session 2, running
\* and still as created, keeps its entry
C18_OtherSurvivesDestroy ==
    /\ rev.op = "socketClosed" /\ rev.sid = 1
    /\ sess[1].dna.name = "Acme"
    /\ 2 \in sessions
    /\ sess[2].isActive
    /\ sess[2].dna = InitialDNA

-----------------------------------------------------------------------------
(* Properties of the Architect's mic lock (SpecArchitect) *)

\* the mic lock has just been released
Released == isToolProcessing /\ ~isToolProcessing'

\* the handlers that run cleanup(), which resets the lock with the capture
CleanupOps == {"connectLive", "getUserMediaRejected", "connectFailed",
               "onerror", "onclose", "disconnectLive"}

\* the message handler as claimed: a toolCall message leaves the mic locked,
\* tool response sent or not, and only a modelTurn message releases the lock
LockReleasedByModelTurnOnly ==
    /\ Released => aev'.op = "serverContent" /\ aev'.modelTurn
    /\ aev'.op = "toolCall" => isToolProcessing'

\* C20 as stated: once locked, the mic lock is released only by an upstream
\* message carrying modelTurn.
C20_ReleasedOnlyByModelTurn == [][LockReleasedByModelTurnOnly]_vars

\* the message handler, and the teardown beside it
LockReleasedByModelTurnOrCleanup ==
    /\ Released => \/ aev'.op = "serverContent" /\ aev'.modelTurn
                   \/ aev'.op \in CleanupOps
    /\ aev'.op = "toolCall" => isToolProcessing'
    /\ aev'.op = "serverContent" /\ ~aev'.modelTurn =>
           isToolProcessing' = isToolProcessing

\* C20 (amended): once locked by a tool call, the mic lock is released only by
\* an upstream message carrying modelTurn or by cleanup(), which tears the
\* capture down; sending the tool response does not release it and further
\* tool calls keep it locked.
C20_ReleasedByModelTurnOrCleanup == [][LockReleasedByModelTurnOrCleanup]_vars

\* the tool response of a tool call has been sent and the mic is locked
C20_LockedAfterToolResponse ==
    /\ aev.op = "toolCall"
    /\ isToolProcessing
    /\ Len(sent) = 1 /\ sent[1].kind = "toolResponse"
    /\ isLive

-----------------------------------------------------------------------------
(* Click selections, session ownership of the channel, teardown *)

\* the session is live for the server: a connection is set and the session
\* is active (the guard of handleUserSelection)
live == geminiConnection # 0 /\ isActive

\* a USER_SELECTION handled on a live session puts exactly one grounding text
\* turn on the channel, and a displayed palette becomes the brand's colours
SelectionGrounded ==
    ev'.op = "USER_SELECTION" /\ sessState = "registered" /\ live =>
        /\ Len(upOut') = 1
        /\ upOut'[1] = [conn |-> geminiConnection, kind |-> "selection"]
        /\ findPalette(currentPalettes, ev'.value) > 0 =>
               dna'.colors = currentPalettes[findPalette(currentPalettes,
                                                         ev'.value)].colors
        /\ awaitingContent' = awaitingContent

\* C21: a click selection received while the session is live is applied to the
\* brand state in the same step and is followed by exactly one grounding text
\* turn sent to the channel, with the tool lock untouched.
C21_SelectionGroundedOnce == [][SelectionGrounded]_vars

\* the upstream channels opened for the session that are open
openChannels == {c \in ConnIds : upstream[c] = "open"}

\* C22: in every reachable state the session owns at most one open upstream
\* channel; a START_SESSION on a session that is connecting or live never
\* leaves two channels open.
C22_AtMostOneOpenChannel == Cardinality(openChannels) <= 1

\* the operations of the component that end its session: the user's
\* disconnect, and the channel's close and error callbacks
EndOps == {"disconnectLive", "onclose", "onerror"}

\* the step that ends the session leaves no channel open and none referenced,
\* the capture stopped, the tool lock off, the warmup re-armed, not live
EndedClean ==
    aev'.op \in EndOps =>
        /\ activeSessionRef' = 0
        /\ \A a \in AttemptIds : attempt'[a] # "open"
        /\ mediaRef' = 0
        /\ ~isToolProcessing'
        /\ isAudioWarmup'
        /\ ~isLive'

\* C23: on end, close or error of a session, from whichever state it was in,
\* the upstream channel is closed and dereferenced, the audio is released and
\* the lock flags are cleared (tool lock off, warmup re-armed, not active) in
\* that same step.
C23_EndClosesAndClears == [][EndedClean]_vars

\* the warmup timeout that fires belongs to a session that has ended (its
\* channel closed and cleanup ran) while a later session is the one referenced
staleTimeout ==
    /\ aev'.op = "warmupTimeout"
    /\ attempt[aev'.a] = "closed"
    /\ activeSessionRef # 0
    /\ aev'.a # activeSessionRef

\* C24: after a session has ended, no timer or in-flight send started by it
\* changes the lock and warmup flags seen by a later session or sends anything
\* upstream.
C24_NoEffectAfterEnd ==
    [][staleTimeout => /\ isAudioWarmup' = isAudioWarmup
                       /\ isToolProcessing' = isToolProcessing
                       /\ sent' = <<>>]_vars

-----------------------------------------------------------------------------
(* Decision passes and tool-call messages *)

\* the pass that completes was started by a connection that can still send:
\* its channel is connected
PassWhileConnected == ev'.op = "decisionResolved" /\ canSend(ev'.conn)

\* a completed pass with tool calls applies them all and then injects the
\* feedback turn; one without injects the 'no tools' turn
OneTurnPerPass ==
    PassWhileConnected =>
        IF ev'.toolCalls # <<>>
        THEN /\ upOut' = <<[conn |-> ev'.conn, kind |-> "feedback"]>>
             /\ dna' = handleToolCalls(Store, ev'.toolCalls).st.dna
             /\ canvasMode' = handleToolCalls(Store, ev'.toolCalls).st.canvasMode
        ELSE /\ upOut' = <<[conn |-> ev'.conn, kind |-> "pulse"]>>
             /\ UNCHANGED storeVars

\* C25: for each decision pass that completes while the channel is connected,
\* exactly one synthetic text turn is injected upstream: after all returned
\* tool calls were applied through the ToolHandler the acknowledge-the-change
\* message, and with no tool calls the distinct 'no tools' message.
C25_OneTurnPerPass == [][OneTurnPerPass]_vars

\* the step that handles a toolCall message: the calls go through the
\* ToolHandler, one tool response with one function response per call goes
\* back, and nothing of the audio and transcript handling happens
ToolCallAnswered ==
    ev'.op = "toolCall" =>
        /\ Len(upOut') = 1
        /\ upOut'[1].kind = "toolResponse" /\ upOut'[1].conn = ev'.conn
        /\ Len(upOut'[1].functionResponses) = Len(ev'.calls)
        /\ \A k \in 1..Len(ev'.calls) :
               upOut'[1].functionResponses[k].name = ev'.calls[k].name
        /\ dna' = applyCalls(Store, ev'.calls).dna
        /\ currentFonts' = applyCalls(Store, ev'.calls).currentFonts
        /\ currentPalettes' = applyCalls(Store, ev'.calls).currentPalettes
        /\ canvasMode' = applyCalls(Store, ev'.calls).canvasMode
        /\ \A k \in 1..Len(out') : out'[k].type \notin {"AUDIO_CHUNK", "TRANSCRIPTION"}
        /\ UNCHANGED <<accumulatedUserInput, passes>>

-----------------------------------------------------------------------------
(* A send that throws in mid-session *)

\* the session's connection has degraded: it is set and the session is active,
\* but the connection no longer passes the guard of its send methods
degraded == geminiConnection # 0 /\ isActive /\ ~canSend(geminiConnection)

\* the step in which sendRealtimeInput throws disconnects the channel and
\* leaves the session registered with its store as it was; audio and text on
\* a degraded channel are dropped without a word to the client
SendFailureDegrades ==
    /\ ev'.op = "AUDIO_CHUNK" /\ ev'.sendThrows =>
           /\ ~isConnected'[geminiConnection]
           /\ sessState' = "registered" /\ wsOpen' = wsOpen
           /\ UNCHANGED <<storeVars, geminiConnection, isActive>>
           /\ out' = <<>> /\ upOut' = <<>>
    /\ ev'.op \in {"AUDIO_CHUNK", "TEXT_INPUT"} /\ degraded =>
           /\ out' = <<>> /\ upOut' = <<>>
           /\ UNCHANGED <<storeVars, sessState>>
    /\ ev'.op = "START_SESSION" /\ degraded /\ apiKeySet =>
           /\ geminiConnection' # geminiConnection
           /\ connPromise'[geminiConnection'] = "pending"
    /\ ev'.op = "connectResolved" /\ ev'.conn = geminiConnection
          /\ sessState = "registered" =>
           isActive' /\ canSend(geminiConnection)'

\* C27: if sending an audio frame upstream throws in mid-session, the channel
\* degrades to disconnected (later audio and text are silently dropped) while
\* the session stays registered with its DNA and canvas unchanged, and a
\* subsequent START_SESSION makes the session live again.
C27_SendFailureDegrades == [][SendFailureDegrades]_vars

\* connection 1 lost its isConnected to a throwing send while its channel was
\* open, and the session is live again on connection 2, which forwards audio
C27_LiveAgainAfterThrow ==
    /\ upstream[1] = "open" /\ liveSession[1] /\ ~isConnected[1]
    /\ geminiConnection = 2 /\ isActive /\ canSend(2)
    /\ sessState = "registered"
    /\ ev.op = "AUDIO_CHUNK"
    /\ upOut = <<[conn |-> 2, kind |-> "audio"]>>

-----------------------------------------------------------------------------
(* BrandStateManager under its callers' method calls
   (src/server/src/sessions/SessionManager.ts, 286-381) *)

\* everything of the server beside the manager's dna and progress
besideManager ==
    <<apiKeySet, sessState, wsOpen, geminiConnection, isActive, currentPalettes,
      currentFonts, canvasMode, connVars, passes, out, upOut, awaitingContent,
      repeated, besideServer>>

\* stateManager.update(field, value)
managerUpdate(field, value) ==
    /\ dna' = update(Store, field, value).dna
    /\ progress' = update(Store, field, value).progress
    /\ ev' = [op |-> "update", field |-> field, value |-> value,
              finalizedBefore |-> {progress[i].field :
                                     i \in {j \in 1..Len(progress) :
                                                progress[j].finalized}}]
    /\ handled' = handled + 1
    /\ UNCHANGED besideManager

\* find(p => p.field === field), then the write to the item found
setFinalized(prog, field, flag) ==
    LET i == findIndex(prog, field)
    IN  IF i > 0 THEN [prog EXCEPT ![i].finalized = flag] ELSE prog

\* stateManager.finalize(field)
finalize(field) ==
    /\ progress' = setFinalized(progress, field, TRUE)
    /\ ev' = [op |-> "finalize", field |-> field,
              returned |-> (findIndex(progress, field) > 0)]
    /\ handled' = handled + 1
    /\ UNCHANGED <<dna, besideManager>>

\* stateManager.unfinalizeForEdit(field)
unfinalizeForEdit(field) ==
    /\ progress' = setFinalized(progress, field, FALSE)
    /\ ev' = [op |-> "unfinalizeForEdit", field |-> field,
              returned |-> (findIndex(progress, field) > 0)]
    /\ handled' = handled + 1
    /\ UNCHANGED <<dna, besideManager>>

\* the fields of a ProgressItem
ProgressFields == {"name", "mission", "font", "colors", "voice"}

ManagerUpdates ==
    {<<"name", Str("Zed")>>, <<"name", Str("Acme")>>, <<"mission", Undef>>,
     <<"colors", Str("#ABCDEF")>>, <<"typography", Arr(<<"Mono", "Inter">>)>>,
     <<"voice", Str("Bold")>>, <<"bogus", Str("x")>>}

ManagerBudget == handled < MaxUpdates

\* one BrandStateManager, called in any order
NextManager ==
    \/ \E x \in ManagerUpdates : ManagerBudget /\ managerUpdate(x[1], x[2])
    \/ \E f \in {"name", "font", "voice"} : ManagerBudget /\ finalize(f)
    \/ \E f \in {"name", "font"} : ManagerBudget /\ unfinalizeForEdit(f)

SpecManager == Init /\ [][NextManager]_vars

\* at most one item per field, and only for the tracked fields
OnePerField(prog) ==
    /\ \A i, j \in 1..Len(prog) : prog[i].field = prog[j].field => i = j
    /\ \A i \in 1..Len(prog) : prog[i].field \in ProgressFields

\* the items keep their places: an update replaces or appends
InPlace ==
    /\ Len(progress') >= Len(progress)
    /\ Len(progress') <= Len(progress) + 1
    /\ \A i \in 1..Len(progress) : progress'[i].field = progress[i].field

\* C28: after any sequence of brand-state updates the progress list holds at
\* most one ProgressItem per tracked field (name, mission, font, colors,
\* voice); a later update to the same field replaces the existing item in
\* place rather than appending.
C28_OneItemPerField == [][OnePerField(progress') /\ InPlace]_vars

\* the name was updated again after other fields: its item is still the first
C28_NameReplacedInPlace ==
    /\ ev.op = "update" /\ ev.field = "name" /\ ev.value = Str("Zed")
    /\ Len(progress) = 3
    /\ progress[1] = [field |-> "name", value |-> Str("Zed"), finalized |-> FALSE]
    /\ dna.name = "Zed"
    /\ handled = 4

\* an item's finalized flag turns true in this step
Finalized ==
    \E i \in 1..Len(progress') :
        /\ progress'[i].finalized
        /\ ~(i <= Len(progress) /\ progress[i].finalized)

\* C29: a ProgressItem's finalized flag becomes true only through an explicit
\* finalize(field) call; an update never sets it to true.
C29_FinalizedOnlyByFinalize ==
    [][/\ Finalized => ev'.op = "finalize" /\ ev'.returned
       /\ ev'.op = "update" => \A i \in 1..Len(progress') :
              progress'[i].finalized => /\ i <= Len(progress)
                                        /\ progress[i].finalized
                                        /\ progress[i] = progress'[i]]_vars

\* a finalized item was replaced by an update, and is not finalized any more
C29_UpdateAfterFinalize ==
    /\ ev.op = "update" /\ ev.field = "name"
    /\ Len(progress) = 2
    /\ ~progress[1].finalized /\ progress[1].field = "name"
    /\ progress[2].finalized
    /\ handled = 4

-----------------------------------------------------------------------------
(* The canvas state *)

\* C30: the canvas state's displayed items agree with its mode in every
\* reachable state: with mode fonts no palettes are held, with mode colors no
\* fonts are held, and with mode none neither is held.
C30_CanvasAgreesWithMode ==
    /\ canvasMode = "fonts" => currentPalettes = <<>>
    /\ canvasMode = "colors" => currentFonts = <<>>
    /\ canvasMode = "none" => currentPalettes = <<>> /\ currentFonts = <<>>

-----------------------------------------------------------------------------
(* Frame of the canvas state *)

canvas == <<canvasMode, currentFonts, currentPalettes>>

DisplayTools == {"display_font_suggestions", "display_color_suggestions"}

\* the display calls of a list that the ToolHandler applies
displayCalls(calls) ==
    {k \in 1..Len(calls) : calls[k].name \in DisplayTools /\ ~throws(calls[k])}

\* the last display call of a list that has one
lastDisplay(calls) ==
    calls[CHOOSE k \in displayCalls(calls) : \A j \in displayCalls(calls) : j <= k]

\* the canvas changes only in a step that applies a display call, and then it
\* holds what the last display call showed and nothing else
CanvasFrame ==
    /\ canvas' # canvas =>
           ev'.op = "toolCall" /\ displayCalls(ev'.calls) # {}
    /\ ev'.op = "toolCall" /\ displayCalls(ev'.calls) # {} =>
           IF lastDisplay(ev'.calls).name = "display_font_suggestions"
           THEN canvasMode' = "fonts" /\ currentPalettes' = <<>>
           ELSE canvasMode' = "colors" /\ currentFonts' = <<>>

\* C31: the canvas state (mode, fonts, palettes) changes only when a
\* display-fonts or display-colors tool call is applied, and such a call
\* replaces it wholesale; DNA-update calls, USER_SELECTION, UPDATE_DNA and the
\* other client messages leave it unchanged.
C31_CanvasChangedByDisplayOnly == [][CanvasFrame]_vars

-----------------------------------------------------------------------------
(* Interleavings of start, end and the completion of the open *)

\* C32: under any interleaving of START_SESSION, END_SESSION and completion of
\* the channel open, the session's active flag is true only if the session
\* references its open channel.
C32_ActiveOwnsOpenChannel ==
    isActive => geminiConnection # 0 /\ upstream[geminiConnection] = "open"

-----------------------------------------------------------------------------
(* Overlapping decision passes *)

\* two user turns, told apart by their transcripts
TurnMsgs ==
    {[inputTranscription |-> "hi", turnComplete |-> TRUE],
     [inputTranscription |-> "yo", turnComplete |-> TRUE],
     [inputTranscription |-> "hi"], [inputTranscription |-> " "],
     [turnComplete |-> TRUE], [interrupted |-> TRUE]}

\* what the agent answers in the overlapping-turns specification
TurnOutcomes ==
    {Answered(<<>>),
     Answered(<<[name |-> "update_live_brand_dna", args |-> [brandName |-> "Acme"]]>>),
     Answered(<<[name |-> "update_live_brand_dna", args |-> [brandName |-> "Bolt"]]>>),
     Answered(<<[name |-> "update_live_brand_dna", args |-> [mission |-> "Sell"]]>>),
     Answered(<<[name |-> "display_font_suggestions",
                 args |-> [fonts |-> <<[name |-> "Inter"]>>]]>>)}

\* one started session whose user turns complete while earlier decision
\* passes are still pending; the passes resolve in any order
NextOverlap ==
    \/ createSession /\ Free
    \/ geminiConnection = 0 /\ handleStartSession /\ Free
    \/ \E c \in ConnIds : connectResolved(c) /\ Free
    \/ \E c \in ConnIds, m \in TurnMsgs :
          geminiContentWithin(c, m, MaxOverlap) /\ Free
    \/ \E i \in 1..MaxOverlap, o \in TurnOutcomes : decisionResolved(i, o) /\ Free

SpecOverlap == Init /\ [][NextOverlap]_vars

\* the pass whose tool calls are applied is the oldest pending one
OldestFirst ==
    ev'.op = "decisionResolved" /\ ev'.toolCalls # <<>> /\ Len(passes) > 1 =>
        passes' = Tail(passes)

\* C33: when two user turns complete in succession and their decision passes
\* overlap in time, the tool calls decided for the earlier turn are applied
\* before those decided for the later turn.
C33_AppliedInTurnOrder == [][OldestFirst]_vars

\* the accumulator of the connection with the fragment of the message added
accumulated ==
    IF TruthyKey(ev'.msg, "inputTranscription")
    THEN Append(accumulatedUserInput[ev'.conn], ev'.msg.inputTranscription)
    ELSE accumulatedUserInput[ev'.conn]

\* a pass is started only by a turn-complete message with a non-blank
\* accumulated transcript; the fragments handed to it leave the accumulator; an
\* interrupted message empties the accumulator and by itself starts no pass
PassStarts ==
    /\ Len(passes') > Len(passes) =>
           /\ ev'.op = "serverContent"
           /\ Has(ev'.msg, "turnComplete")
           /\ nonBlank(accumulated)
           /\ passes' = Append(passes, [conn |-> ev'.conn, input |-> accumulated,
                                        whileActive |-> servesActive(ev'.conn)])
           /\ accumulatedUserInput'[ev'.conn] = <<>>
    /\ ev'.op = "serverContent" /\ Has(ev'.msg, "interrupted") =>
           /\ accumulatedUserInput'[ev'.conn] = <<>>
           /\ ~Has(ev'.msg, "turnComplete") => passes' = passes
    /\ ev'.op = "serverContent" /\ ~Has(ev'.msg, "turnComplete") =>
           passes' = passes

\* C34: a decision pass is started only when a turn-complete event arrives
\* with a non-empty accumulated user transcript; each input-transcription
\* fragment is passed to at most one decision pass, and fragments accumulated
\* before an interrupted event are discarded without being analysed.
C34_PassPerCompletedTurn == [][PassStarts]_vars

\* a fragment was accumulated, and the turn-complete message that followed
\* started the pass that holds it, while an earlier pass was still pending
C34_AccumulatedThenPassed ==
    /\ ev.op = "serverContent" /\ ev.msg = [turnComplete |-> TRUE]
    /\ Len(passes) = 2
    /\ passes[2].input = <<"hi">>
    /\ accumulatedUserInput[1] = <<>>

-----------------------------------------------------------------------------
(* Client messages on a session that is not active *)

ClientInputs == {"AUDIO_CHUNK", "TEXT_INPUT", "USER_SELECTION"}

\* audio, text and clicks handled while isActive is false reach neither the
\* channel nor the store nor the client
InactiveIgnores ==
    ev'.op \in ClientInputs /\ ~isActive =>
        /\ upOut' = <<>>
        /\ out' = <<>>
        /\ UNCHANGED <<storeVars, isActive, geminiConnection, isConnected>>

\* C35: while a session is not active (before a successful START_SESSION,
\* after a failed one, or after END_SESSION), AUDIO_CHUNK, TEXT_INPUT and
\* USER_SELECTION messages send nothing upstream, and USER_SELECTION changes no
\* brand state and emits no DNA_UPDATE.
C35_InactiveIgnoresInput == [][InactiveIgnores]_vars

\* a displayed palette was clicked after the session stopped being active
\* while a new open is pending, and nothing came of it
C35_ClickWhileInactive ==
    /\ ev.op = "USER_SELECTION"
    /\ ~isActive
    /\ geminiConnection # 0
    /\ findPalette(currentPalettes, ev.value) > 0
    /\ dna.colors = <<>>
    /\ out = <<>> /\ upOut = <<>>

-----------------------------------------------------------------------------
(* The client transport of a destroyed session *)

\* C36: after destroySession has run, no server message (for example from a
\* late upstream event or a late decision pass of that session) is written to
\* that session's client transport.
C36_NoWriteAfterDestroy == sessState = "destroyed" => out = <<>>

\* a decision pass of a destroyed session resolved with tool calls, which were
\* applied, and nothing was written to the client
C36_LatePassWroteNothing ==
    /\ sessState = "destroyed"
    /\ ev.op = "decisionResolved"
    /\ ev.toolCalls # <<>>
    /\ dna.name = "Acme"
    /\ out = <<>>

-----------------------------------------------------------------------------
(* The tag of a DNA_UPDATE *)

\* C37: in every DNA_UPDATE emitted for a DNA-update tool call, updatedField
\* names a field whose value that same call wrote to the brand state store.
C37_UpdatedFieldWasWritten ==
    (/\ ev.op = "toolCall"
     /\ Len(ev.calls) = 1
     /\ isDnaCall(ev.calls[1])
     /\ ~throws(ev.calls[1]))
    => \A i \in 1..Len(out) :
           out[i].type = "DNA_UPDATE" =>
               carried(ev.calls[1].args, out[i].updatedField)

-----------------------------------------------------------------------------
(* The client's view of the canvas
   (src/unnamed/part_003, 57-112; ArchitectMain.tsx, 25 and 51-65) *)

\* handleMessage's switch with ArchitectMain's callbacks: the suggestion mode
\* after one server message
onServerMessage(mode, msg) ==
    CASE msg.type = "FONT_SUGGESTIONS" -> "fonts"
      [] msg.type = "COLOR_SUGGESTIONS" -> "colors"
      [] msg.type = "DNA_UPDATE" -> "none"
      [] OTHER -> mode

\* ws.onmessage for the oldest message in flight
handleMessage ==
    /\ toClient # <<>>
    /\ suggestionMode' = onServerMessage(suggestionMode, Head(toClient))
    /\ toClient' = Tail(toClient)
    /\ UNCHANGED <<srvVars, besideSession>>

\* the most messages in flight to the client
MaxInFlight == 4

\* a server step: what it writes to the socket is in flight to the client
Written ==
    /\ Len(toClient) + Len(out') <= MaxInFlight
    /\ toClient' = toClient \o out'
    /\ UNCHANGED <<suggestionMode, besideSession>>

WrittenFree == Written /\ UNCHANGED <<handled, repeated>>

WrittenCounted ==
    /\ Written
    /\ handled' = handled + 1
    /\ repeated' = (ev'.op = ev.op /\ ev' = ev)

\* the tool path of a session started once, with the client that renders it
NextClient ==
    \/ createSession /\ WrittenFree
    \/ geminiConnection = 0 /\ handleStartSession /\ WrittenFree
    \/ \E c \in ConnIds : connectResolved(c) /\ WrittenFree
    \/ \E calls \in CallLists :
          /\ Budget
          /\ geminiConnection # 0
          /\ geminiToolCall(geminiConnection, calls)
          /\ WrittenCounted
    \/ \E x \in SelectionInputs :
          Budget /\ handleUserSelection(x[1], x[2]) /\ WrittenCounted
    \/ \E x \in UpdateInputs :
          Budget /\ handleUpdateDNA(x[1], x[2]) /\ WrittenCounted
    \/ handleMessage

SpecClient == Init /\ [][NextClient]_vars

\* C38: once every server message has been delivered, the mode the client
\* displays is the canvas mode of the server's session
C38_ClientModeMatchesServer ==
    toClient = <<>> => suggestionMode = canvasMode

-----------------------------------------------------------------------------
(* An update of a finalized field (SpecManager) *)

\* the ProgressItem field that update(field, ...) writes
itemOf(field) == IF field = "typography" THEN "font" ELSE field

\* the step is an update of a field whose item was finalized
UpdatesFinalized ==
    ev'.op = "update" /\ itemOf(ev'.field) \in ev'.finalizedBefore

\* C39: BrandStateManager.update on a field whose ProgressItem is finalized
\* replaces that item with one that is not finalized, in the same place: a
\* field stays finalized only until its next value update.
C39_UpdateClearsFinalized ==
    [][UpdatesFinalized =>
          LET i == findIndex(progress, itemOf(ev'.field))
          IN  /\ i > 0 /\ progress[i].finalized
              /\ Len(progress') = Len(progress)
              /\ progress'[i].field = itemOf(ev'.field)
              /\ ~progress'[i].finalized
              /\ \A j \in 1..Len(progress) : j # i => progress'[j] = progress[j]]_vars

\* the font was finalized and the typography updated after it
C39_FontUpdatedAfterFinalize ==
    /\ ev.op = "update" /\ ev.field = "typography"
    /\ "font" \in ev.finalizedBefore
    /\ findIndex(progress, "font") > 0
    /\ ~progress[findIndex(progress, "font")].finalized
    /\ progress[findIndex(progress, "font")].value = Str("Mono")

=============================================================================
